---- MODULE Spec2Model ----
(***************************************************************************)
(* Model of the scratch-emulator audio engine of native-lib.cpp: the two   *)
(* AudioSample voices (platter and music), the AudioEngine facade called   *)
(* from the control thread, and the Oboe data callback (onAudioReady ->     *)
(* AudioSample::getAudio) running on the audio thread.                     *)
(*                                                                         *)
(* Floats are fixed-point integers: Unit stands for 1.0f, so a cursor or a *)
(* rate r is the float r / Unit.  Float rounding is not modelled.          *)
(* A path is a sequence of tokens whose concatenation is the C++ string     *)
(* (<<"sounds/x", ".mp3">> is "sounds/x.mp3").                              *)
(***************************************************************************)
EXTENDS Integers, Sequences, FiniteSets, TLC

NUM_TAPS == 16
SUBDIVISION_STEPS == 1024
\* 1.0f in fixed point: one unit is the 0.00001f rate epsilon of the engine.
Unit == 100000
\* Channel count of the output stream (opened as oboe::ChannelCount::Stereo).
StreamChannels == 2
\* Largest numFrames the platform passes to one callback.
MaxFrames == 3
\* The same, in the runs that interleave facade calls with the callback's steps.
RaceFrames == 1
\* The same, in the runs that start and stop both voices beside the callback.
StopFrames == 2
\* Most requests the platform stream receives in one run.
MaxRequests == 3

Mp3 == ".mp3"
Wav == ".wav"

Min(a, b) == IF a < b THEN a ELSE b
Max(a, b) == IF a > b THEN a ELSE b

\* C++ integer %: the remainder has the sign of the dividend.
CRem(a, b) == IF a >= 0 THEN a % b ELSE -((-a) % b)
\* fmodf: the result has the sign of x.
fmodf(x, y) == IF x >= 0 THEN x % y ELSE -((-x) % y)
\* std::floor of a fixed-point float, as a whole number of frames.
Floor(x) == x \div Unit

\* A float product a * b / c on fixed-point magnitudes, computed without
\* leaving the 32-bit integers of TLC: <<quotient, remainder>>.
RECURSIVE MulDivQR(_, _, _)
MulDivQR(a, b, c) ==
  IF b = 0 THEN <<0, 0>>
  ELSE LET h == MulDivQR(a, b \div 2, c)
           rr == 2 * h[2] + (b % 2) * (a % c)
       IN <<2 * h[1] + (b % 2) * (a \div c) + rr \div c, rr % c>>

fabs(x) == IF x < 0 THEN -x ELSE x

\* A float has 24 significant bits: at a magnitude of m frames, 128 <= m, its
\* neighbours are 1 / SpacingDenominator(m) frames apart (1/65536 in [128, 256),
\* twice that in [256, 512), ...).
RECURSIVE SpacingDenominator(_)
SpacingDenominator(m) ==
  IF m < 256 THEN 65536 ELSE SpacingDenominator(m \div 2) \div 2

\* The float nearest to the real x (ties to even), on the fixed-point scale.
\* Below 128 frames floats are closer together than the scale's unit and x
\* stands for itself.
RoundToFloat(x) ==
  IF fabs(x) < 128 * Unit THEN x
  ELSE LET D == SpacingDenominator(fabs(x) \div Unit)
           qr == MulDivQR(fabs(x), D, Unit)
           k == IF 2 * qr[2] > Unit \/ (2 * qr[2] = Unit /\ qr[1] % 2 = 1)
                THEN qr[1] + 1 ELSE qr[1]
           back == MulDivQR(k, Unit, D)
           g == IF 2 * back[2] >= D THEN back[1] + 1 ELSE back[1]
       IN IF x < 0 THEN -g ELSE g

\* operator+ on two floats (lines 411 and 464).
faddf(a, b) == RoundToFloat(a + b)

VARIABLES
  assets,              \* what AAssetManager_open / dr_wav / dr_mp3 find: path -> file
  platterAudioSample,  \* AudioEngine::platterAudioSample_ (an AudioSample)
  musicAudioSample,    \* AudioEngine::musicAudioSample_ (an AudioSample)
  engine,              \* the AudioEngine's own atomics and indices
  audio,               \* the audio thread: position inside onAudioReady / getAudio
  outputBuffer,        \* the callback's audioData, one entry per frame and channel
  firstFetch           \* history, per voice: "pending" from a successful load (or
                       \* "restart" from the restart of playTrack) until the audio
                       \* thread fetches its next frame of the voice; "stale" (or
                       \* "lost") if that fetch was not at cursor 0; else "none"

vars == <<assets, platterAudioSample, musicAudioSample, engine, audio,
          outputBuffer, firstFetch>>

(***************************************************************************)
(* The fixed path lists of the AudioEngine constructor.                    *)
(***************************************************************************)
platterSamplePaths == << <<"sounds/haahhh">>, <<"sounds/sample1">>, <<"sounds/sample2">> >>
musicTrackPaths == << <<"tracks/trackA">>, <<"tracks/trackB">> >>

(***************************************************************************)
(* Asset files.  fmt is what the bytes really are, frames/channels what    *)
(* the decoder reports, complete whether drwav_read_pcm_frames_f32 returns *)
(* every frame, tag distinguishes the PCM of different files.              *)
(***************************************************************************)
File(fmt, frames, channels, complete, tag) ==
  [fmt |-> fmt, frames |-> frames, channels |-> channels, complete |-> complete, tag |-> tag]

\* The asset directory of the engine runs: an .mp3 only, a .wav only, nothing,
\* both, and a .wav whose PCM read comes up short.
AssetDir ==
  ( <<"sounds/haahhh", Mp3>> :> File("mp3", 3, 1, TRUE, 1) ) @@
  ( <<"sounds/sample1", Wav>> :> File("wav", 2, 2, TRUE, 2) ) @@
  ( <<"tracks/trackA", Mp3>> :> File("mp3", 2, 2, TRUE, 3) ) @@
  ( <<"tracks/trackA", Wav>> :> File("wav", 3, 1, TRUE, 4) ) @@
  ( <<"tracks/trackB", Wav>> :> File("wav", 2, 1, FALSE, 5) )

\* The interleaved float PCM of a file: sample i of file tag is tag*100 + i.
PcmData(f) == [i \in 1..(f.frames * f.channels) |-> f.tag * 100 + i]

(***************************************************************************)
(* struct AudioSample                                                      *)
(***************************************************************************)
NewAudioSample ==
  [filePath |-> <<>>, audioData |-> <<>>, totalFrames |-> 0, channels |-> 0,
   isPlaying |-> FALSE, loop |-> FALSE, playOnceThenLoopSilently |-> FALSE,
   playedOnce |-> FALSE, preciseCurrentFrame |-> 0,
   audioEnginePtr |-> FALSE, useEngineRateForPlayback |-> FALSE]

tolower(tok) == CASE tok = ".MP3" -> Mp3 [] tok = ".WAV" -> Wav [] OTHER -> tok

\* AudioSample::hasExtension: the lower-cased path ends with extension.
hasExtension(path, extension) ==
  Len(path) >= 1 /\ tolower(path[Len(path)]) = extension

\* AudioSample::tryLoadPath: the sample after the attempt and whether it decoded.
tryLoadPath(s, dir, currentPathToTry) ==
  LET cleared == [s EXCEPT !.audioData = <<>>, !.totalFrames = 0, !.channels = 0]
      failed == [smp |-> cleared, success |-> FALSE, path |-> currentPathToTry]
  IN IF currentPathToTry \notin DOMAIN dir THEN failed
     ELSE LET f == dir[currentPathToTry]
          IN IF hasExtension(currentPathToTry, Wav)
             THEN IF f.fmt = "wav"
                  THEN [smp |-> [cleared EXCEPT
                                   !.channels = f.channels,
                                   !.totalFrames = f.frames,
                                   !.audioData = PcmData(f)],
                        success |-> f.complete, path |-> currentPathToTry]
                  ELSE failed
             ELSE IF hasExtension(currentPathToTry, Mp3)
             THEN IF f.fmt = "mp3"
                  THEN [smp |-> [cleared EXCEPT
                                   !.channels = f.channels,
                                   !.totalFrames = f.frames,
                                   !.audioData = PcmData(f)],
                        success |-> TRUE, path |-> currentPathToTry]
                  ELSE failed
             ELSE failed

\* load without the cursor store of line 313.
loadResetKeepsCursor(s) ==
  [s EXCEPT !.audioEnginePtr = TRUE, !.isPlaying = FALSE,
            !.useEngineRateForPlayback = FALSE, !.playedOnce = FALSE,
            !.loop = FALSE, !.playOnceThenLoopSilently = FALSE]

\* AudioSample::load, lines 312-314: the reset of the playback state.
loadReset(s) ==
  [s EXCEPT !.audioEnginePtr = TRUE, !.isPlaying = FALSE, !.preciseCurrentFrame = 0,
            !.useEngineRateForPlayback = FALSE, !.playedOnce = FALSE,
            !.loop = FALSE, !.playOnceThenLoopSilently = FALSE]

\* load with the attempts of lines 320-327 swapped: ".wav" before ".mp3".
loadAttemptsWavFirst(s, dir, basePath) ==
  LET t0 == IF hasExtension(basePath, Wav) \/ hasExtension(basePath, Mp3)
            THEN tryLoadPath(s, dir, basePath)
            ELSE [smp |-> s, success |-> FALSE, path |-> basePath]
      t1 == IF ~t0.success THEN tryLoadPath(t0.smp, dir, basePath \o <<Wav>>) ELSE t0
      t2 == IF ~t1.success THEN tryLoadPath(t1.smp, dir, basePath \o <<Mp3>>) ELSE t1
  IN t2

\* AudioSample::load, lines 316-327: the path variants in the order tried.
loadAttempts(s, dir, basePath) ==
  LET t0 == IF hasExtension(basePath, Wav) \/ hasExtension(basePath, Mp3)
            THEN tryLoadPath(s, dir, basePath)
            ELSE [smp |-> s, success |-> FALSE, path |-> basePath]
      t1 == IF ~t0.success THEN tryLoadPath(t0.smp, dir, basePath \o <<Mp3>>) ELSE t0
      t2 == IF ~t1.success THEN tryLoadPath(t1.smp, dir, basePath \o <<Wav>>) ELSE t1
  IN t2

\* load without the clearing of line 333.
loadDecodeKeepsPartial(s, dir, basePath) ==
  LET t == loadAttempts(s, dir, basePath)
  IN IF t.success
     THEN [t.smp EXCEPT !.filePath = t.path]
     ELSE [t.smp EXCEPT !.filePath = basePath]

\* AudioSample::load, lines 315-334: the attempts and the recording of the result.
loadDecode(s, dir, basePath) ==
  LET t == loadAttempts(s, dir, basePath)
  IN IF t.success
     THEN [t.smp EXCEPT !.filePath = t.path]
     ELSE [t.smp EXCEPT !.filePath = basePath, !.audioData = <<>>,
                        !.totalFrames = 0, !.channels = 0]

\* AudioSample::load as one call.
load(s, dir, basePath) == loadDecode(loadReset(s), dir, basePath)

(***************************************************************************)
(* AudioSample::getSampleAt and the per-frame parts of getAudio            *)
(***************************************************************************)
\* getSampleAt without the correction of line 70: the C++ remainder as it is.
effectiveFrameIndexNoCorrection(s, frameIndex) ==
  IF s.loop
  THEN IF s.totalFrames > 0 THEN CRem(frameIndex, s.totalFrames) ELSE 0
  ELSE Max(0, Min(frameIndex, s.totalFrames - 1))

\* getSampleAt, lines 66-78: the frame index after the loop / clamp policy.
effectiveFrameIndex(s, frameIndex) ==
  IF s.loop
  THEN IF s.totalFrames > 0
       THEN LET r == CRem(frameIndex, s.totalFrames)
            IN IF r < 0 THEN r + s.totalFrames ELSE r
       ELSE 0
  ELSE Max(0, Min(frameIndex, s.totalFrames - 1))

\* getSampleAt: what one call touches.  called is FALSE when line 64 returns 0.0f
\* at once; frameIndex and loop are the argument and the policy of the call;
\* frame is the frame after the policy; index is actualIndex before the size check of line 81 (a negative
\* one is a huge size_t, which that check rejects); deref is whether
\* audioData[actualIndex] is read.
getSampleAt(s, frameIndex, channelIndex) ==
  IF s.audioData = <<>> \/ s.totalFrames = 0
  THEN [called |-> FALSE, frameIndex |-> frameIndex, loop |-> s.loop,
        frame |-> 0, index |-> 0, deref |-> FALSE]
  ELSE LET eff == effectiveFrameIndex(s, frameIndex)
           actualIndex == eff * s.channels + CRem(channelIndex, s.channels)
       IN [called |-> TRUE, frameIndex |-> frameIndex, loop |-> s.loop,
           frame |-> eff, index |-> actualIndex,
           deref |-> actualIndex >= 0 /\ actualIndex < Len(s.audioData)]

\* getAudio, lines 341-353: the rate one call of getAudio uses.
playbackRateToUse(s, eng) ==
  IF s.useEngineRateForPlayback /\ s.audioEnginePtr
  THEN eng.platterTargetPlaybackRate ELSE Unit

\* getAudio without the isPlaying test of line 383.
notPlayableUnlessEmpty(s) ==
  s.audioData = <<>> \/ s.totalFrames = 0 \/ s.channels = 0

\* getAudio, line 383: the call returns at once.
notPlayable(s) ==
  ~s.isPlaying \/ s.audioData = <<>> \/ s.totalFrames = 0 \/ s.channels = 0

\* getAudio whose one-shot branch (line 403) leaves the cursor where it is.
boundaryLogicNoRewind(s, local) ==
  IF ~s.isPlaying THEN [smp |-> s, local |-> local, brk |-> TRUE]
  ELSE IF local >= s.totalFrames * Unit \/ local < 0
  THEN IF s.playOnceThenLoopSilently /\ ~s.playedOnce
       THEN [smp |-> [s EXCEPT !.playedOnce = TRUE, !.loop = TRUE],
             local |-> local, brk |-> FALSE]
       ELSE IF s.loop
       THEN LET m == fmodf(local, s.totalFrames * Unit)
            IN [smp |-> s,
                local |-> IF m < 0 THEN faddf(m, s.totalFrames * Unit) ELSE m,
                brk |-> FALSE]
       ELSE [smp |-> [s EXCEPT !.isPlaying = FALSE], local |-> local, brk |-> TRUE]
  ELSE [smp |-> s, local |-> local, brk |-> FALSE]

\* getAudio whose end-of-sample branch (lines 420-421) neither stops the voice
\* nor leaves the loop.
boundaryLogicNoStop(s, local) ==
  IF ~s.isPlaying THEN [smp |-> s, local |-> local, brk |-> TRUE]
  ELSE IF local >= s.totalFrames * Unit \/ local < 0
  THEN IF s.playOnceThenLoopSilently /\ ~s.playedOnce
       THEN [smp |-> [s EXCEPT !.playedOnce = TRUE, !.loop = TRUE],
             local |-> 0, brk |-> FALSE]
       ELSE IF s.loop
       THEN LET m == fmodf(local, s.totalFrames * Unit)
            IN [smp |-> s,
                local |-> IF m < 0 THEN faddf(m, s.totalFrames * Unit) ELSE m,
                brk |-> FALSE]
       ELSE [smp |-> s, local |-> local, brk |-> FALSE]
  ELSE [smp |-> s, local |-> local, brk |-> FALSE]

\* The boundary logic of one frame without the isPlaying test of line 394.
boundaryLogicNoRecheck(s, local) ==
  IF local >= s.totalFrames * Unit \/ local < 0
  THEN IF s.playOnceThenLoopSilently /\ ~s.playedOnce
       THEN [smp |-> [s EXCEPT !.playedOnce = TRUE, !.loop = TRUE],
             local |-> 0, brk |-> FALSE]
       ELSE IF s.loop
       THEN IF s.totalFrames > 0
            THEN LET m == fmodf(local, s.totalFrames * Unit)
                 IN [smp |-> s,
                     local |-> IF m < 0 THEN faddf(m, s.totalFrames * Unit) ELSE m,
                     brk |-> FALSE]
            ELSE [smp |-> s, local |-> 0, brk |-> FALSE]
       ELSE [smp |-> [s EXCEPT !.isPlaying = FALSE], local |-> local, brk |-> TRUE]
  ELSE [smp |-> s, local |-> local, brk |-> FALSE]

\* getAudio, lines 394-428: the isPlaying check and the boundary logic of one
\* frame.  brk: the loop is left (break) without fetching this frame.
boundaryLogic(s, local) ==
  IF ~s.isPlaying THEN [smp |-> s, local |-> local, brk |-> TRUE]
  ELSE IF local >= s.totalFrames * Unit \/ local < 0
  THEN IF s.playOnceThenLoopSilently /\ ~s.playedOnce
       THEN [smp |-> [s EXCEPT !.playedOnce = TRUE, !.loop = TRUE],
             local |-> 0, brk |-> FALSE]
       ELSE IF s.loop
       THEN IF s.totalFrames > 0
            THEN LET m == fmodf(local, s.totalFrames * Unit)
                 IN [smp |-> s,
                     local |-> IF m < 0 THEN faddf(m, s.totalFrames * Unit) ELSE m,
                     brk |-> FALSE]
            ELSE [smp |-> s, local |-> 0, brk |-> FALSE]
       ELSE [smp |-> [s EXCEPT !.isPlaying = FALSE], local |-> local, brk |-> TRUE]
  ELSE [smp |-> s, local |-> local, brk |-> FALSE]

\* getAudio, lines 405-428, entered with the cursor outside the buffer and no
\* one-shot pending: the loop test, the wrap or the stop, and the re-check of
\* isPlaying at line 425.
loopTest(s, local) ==
  IF s.loop
  THEN LET wrapped == IF s.totalFrames > 0
                      THEN LET m == fmodf(local, s.totalFrames * Unit)
                           IN IF m < 0 THEN faddf(m, s.totalFrames * Unit) ELSE m
                      ELSE 0
       IN [smp |-> s, local |-> wrapped, brk |-> ~s.isPlaying]
  ELSE [smp |-> [s EXCEPT !.isPlaying = FALSE], local |-> local, brk |-> TRUE]

(***************************************************************************)
(* AudioSample::precalculateSincTable and its helpers.  The doubles and    *)
(* floats of the table are fixed-point numbers on the scale of Unit; the   *)
(* library calls std::sin, std::exp and std::sqrt are computed to that     *)
(* scale.                                                                  *)
(***************************************************************************)
\* KAISER_BETA (line 18) and M_PI.
KAISER_BETA == 6 * Unit
M_PI == 314159

\* The product and the quotient of two fixed-point numbers, towards zero.
fmul(x, y) ==
  LET m == MulDivQR(fabs(x), fabs(y), Unit)[1]
  IN IF (x < 0) = (y < 0) THEN m ELSE -m
fdiv(x, y) ==
  LET q == MulDivQR(fabs(x), Unit, fabs(y))[1]
  IN IF (x < 0) = (y < 0) THEN q ELSE -q
\* operator/ on two floats: the quotient rounded to the nearest unit.
fdivf(x, y) ==
  LET qr == MulDivQR(fabs(x), Unit, fabs(y))
      q == IF 2 * qr[2] >= fabs(y) THEN qr[1] + 1 ELSE qr[1]
  IN IF (x < 0) = (y < 0) THEN q ELSE -q

\* std::sqrt of x >= 0: the largest r of the scale with r * r <= x.
RECURSIVE sqrtBetween(_, _, _)
sqrtBetween(x, lo, hi) ==
  IF hi - lo <= 1 THEN lo
  ELSE LET mid == (lo + hi) \div 2
       IN IF fmul(mid, mid) <= x THEN sqrtBetween(x, mid, hi)
          ELSE sqrtBetween(x, lo, mid)
sqrt(x) == IF x >= Unit THEN sqrtBetween(x, Unit, x + 1) ELSE sqrtBetween(x, 0, Unit + 1)

\* std::exp of x >= 0: the power series, from term x^n / n! on, until its
\* terms vanish on the scale.
RECURSIVE expFrom(_, _, _)
expFrom(x, term, n) ==
  IF term = 0 THEN 0 ELSE term + expFrom(x, fmul(term, x) \div (n + 1), n + 1)
exp(x) == expFrom(x, Unit, 0)

\* std::sin of an angle in [0, pi / 2]: the power series, from term
\* x^n / n! on (n odd).
RECURSIVE sinFrom(_, _, _)
sinFrom(x, term, n) ==
  IF term = 0 THEN 0
  ELSE term - sinFrom(x, fmul(fmul(term, x), x) \div ((n + 1) * (n + 2)), n + 2)
\* std::sin(M_PI * sincPoint) for a sincPoint of steps / SUBDIVISION_STEPS,
\* steps >= 0 (every sincPoint of the table is such a fraction): the angle is
\* first brought into [0, pi / 2] by the symmetries of the sine.
sinPi(steps) ==
  LET r == steps % (2 * SUBDIVISION_STEPS)
      h == r % SUBDIVISION_STEPS
      q == IF 2 * h > SUBDIVISION_STEPS THEN SUBDIVISION_STEPS - h ELSE h
      angle == MulDivQR(M_PI, q, SUBDIVISION_STEPS)[1]
      s == sinFrom(angle, angle, 1)
  IN IF r >= SUBDIVISION_STEPS THEN -s ELSE s

\* bessel_i0_approx, lines 101-111.
bessel_i0_approx(x) ==
  LET ax == fabs(x)
  IN IF ax < 375000
     THEN LET y0 == fdiv(x, 375000)
              y == fmul(y0, y0)
          IN Unit + fmul(y, 351562 + fmul(y, 308994 + fmul(y, 120675
                  + fmul(y, 26597 + fmul(y, 3608 + fmul(y, 458))))))
     ELSE LET y == fdiv(375000, ax)
          IN fmul(fdiv(exp(ax), sqrt(ax)),
                  39894 + fmul(y, 1329 + fmul(y, 225 + fmul(y, -158
                  + fmul(y, 916 + fmul(y, -2058 + fmul(y, 2636
                  + fmul(y, -1648 + fmul(y, 392)))))))))

\* kaiserWindow, lines 115-137; N_total_taps is a whole number.
kaiserWindow(n_rel_to_center, N_total_taps, beta) ==
  IF /\ fabs(n_rel_to_center) > (N_total_taps * Unit) \div 2 - Unit \div 2
     /\ N_total_taps > 1
  THEN 0
  ELSE LET term_val_for_bessel_arg ==
             IF N_total_taps <= 1 THEN 0
             ELSE (2 * (n_rel_to_center + ((N_total_taps * Unit) \div 2 - Unit \div 2)))
                    \div (N_total_taps - 1) - Unit
           squared == fmul(term_val_for_bessel_arg, term_val_for_bessel_arg)
           val_inside_sqrt == IF Unit - squared < 0 THEN 0 ELSE Unit - squared
       IN fdiv(bessel_i0_approx(fmul(beta, sqrt(val_inside_sqrt))),
               bessel_i0_approx(beta))

\* Line 177 for each tap i: the window depends on the tap alone.
windowValue ==
  [i \in 0..(NUM_TAPS - 1) |->
     kaiserWindow(i * Unit - ((NUM_TAPS - 1) * Unit) \div 2, NUM_TAPS, KAISER_BETA)]

\* Lines 164-171: sincValue of tap i in row j.  sincPoint is
\* (i - (NUM_TAPS / 2 - 1)) - j / SUBDIVISION_STEPS, kept as its exact count
\* of 1 / SUBDIVISION_STEPS; the sinc is even, so its magnitude is used.
sincValue(j, i) ==
  LET steps == (i - (NUM_TAPS \div 2 - 1)) * SUBDIVISION_STEPS - j
      sincPoint == MulDivQR(fabs(steps), Unit, SUBDIVISION_STEPS)[1]
  IN IF steps = 0 THEN Unit
     ELSE fdiv(sinPi(fabs(steps)), fmul(M_PI, sincPoint))

\* Line 181: the raw coefficients of row j, taps 0 .. NUM_TAPS - 1 at
\* positions 1 .. NUM_TAPS.
rawRow(j) == [k \in 1..NUM_TAPS |-> fmul(sincValue(j, k - 1), windowValue[k - 1])]

\* Line 182: sumCoeffs after the inner loop.
RECURSIVE sumCoeffs(_, _)
sumCoeffs(row, n) == IF n = 0 THEN 0 ELSE sumCoeffs(row, n - 1) + row[n]

\* Lines 186-190 with the division left out.
normalizeNever(row) == row

\* Lines 186-190: the row divided by its sum, unless the sum is within 1e-6
\* (a tenth of a unit) of zero.
normalize(row) ==
  LET sum == sumCoeffs(row, NUM_TAPS)
  IN IF fabs(sum) * 10 > 1
     THEN [k \in 1..NUM_TAPS |-> fdivf(row[k], sum)]
     ELSE row

\* sincTable[j] after precalculateSincTable.
sincTable(j) == normalize(rawRow(j))

\* getAudio, lines 430-435: the kernel row of a cursor.
sincTableIndex(local) ==
  LET fractionalTime == local - Floor(local) * Unit
  IN Min((fractionalTime * SUBDIVISION_STEPS) \div Unit, SUBDIVISION_STEPS - 1)

\* The kernel start with the peak tap at NUM_TAPS / 2.
kernelStartPeakAtHalf(local) == Floor(local) - NUM_TAPS \div 2

\* getAudio, line 449.
kernelStartFrameIndex(local) == Floor(local) - (NUM_TAPS \div 2 - 1)

\* getAudio, lines 451-462: what one frame adds to output channel ch_out.  The
\* float interpolatedSample * effectiveVolume is kept symbolic: the voice, the
\* kernel row, the NUM_TAPS getSampleAt calls and the volume that make it up.
contribution(v, s, local, ch_out, effectiveVolume) ==
  [voice |-> v,
   row |-> sincTableIndex(local),
   taps |-> [k \in 1..NUM_TAPS |->
               getSampleAt(s, kernelStartFrameIndex(local) + (k - 1),
                           IF s.channels = 0 THEN 0 ELSE ch_out % s.channels)],
   volume |-> effectiveVolume]

\* getAudio, line 462 for every ch_out of frame i: += into the output buffer.
\* A slot is the set of contributions added to the 0.0f of the memset.
addFrame(buf, v, s, local, i, effectiveVolume) ==
  [slot \in 1..Len(buf) |->
     IF (slot - 1) \div StreamChannels = i
     THEN buf[slot] \cup
          {contribution(v, s, local, (slot - 1) % StreamChannels, effectiveVolume)}
     ELSE buf[slot]]

\* What the stream left in a slot of audioData before the callback: 0.0f, or
\* whatever an earlier use of the memory put there.
Stale == [voice |-> "stale", row |-> 0, taps |-> <<>>, volume |-> 0]

\* onAudioReady, line 836: the audioData of numFrames frames the stream hands
\* to the callback.
StreamBuffers(numFrames) ==
  { [slot \in 1..(numFrames * StreamChannels) |-> x] : x \in {{}, {Stale}} }

\* memset of numFrames floats, without the channelCount of line 839.
memsetFramesOnly(audioData, numFrames) ==
  [slot \in 1..Len(audioData) |-> IF slot <= numFrames THEN {} ELSE audioData[slot]]

\* onAudioReady, line 839: memset of numFrames * channelCount floats.
memset(audioData, numFrames) ==
  [slot \in 1..Len(audioData) |->
     IF slot <= numFrames * StreamChannels THEN {} ELSE audioData[slot]]

(***************************************************************************)
(* class AudioEngine                                                       *)
(***************************************************************************)
\* AudioEngine::AudioEngine and the member initializers.
NewAudioEngine ==
  [platterTargetPlaybackRate |-> Unit,
   scratchSensitivity |-> 17000,
   degreesPerFrameForUnityRate |-> 250000,
   currentPlatterSampleIndex |-> 0,
   currentMusicTrackIndex |-> 0,
   platterFaderVolume |-> 0,
   generalMusicVolume |-> 90000,
   isFingerDownOnPlatter |-> FALSE,
   audioStream |-> "Open",     \* audioStream_->getState(), "null" for no stream
   streamRequests |-> <<>>,    \* history: the requests the platform received
   streamResult |-> "none"]    \* history: what the last start/stopStream returned

MOVEMENT_THRESHOLD == 100

\* std::clamp
clamp(x, lo, hi) == IF x < lo THEN lo ELSE IF x > hi THEN hi ELSE x

\* AudioEngine::setPlatterFaderVolumeInternal
setPlatterFaderVolumeInternal(eng, volume) ==
  [eng EXCEPT !.platterFaderVolume = clamp(volume, 0, Unit)]

\* setMusicMasterVolumeInternal without the clamp of line 738.
setMusicMasterVolumeUnclamped(eng, volume) ==
  [eng EXCEPT !.generalMusicVolume = volume]

\* AudioEngine::setMusicMasterVolumeInternal
setMusicMasterVolumeInternal(eng, volume) ==
  [eng EXCEPT !.generalMusicVolume = clamp(volume, 0, Unit)]

\* AudioEngine::setScratchSensitivityInternal
setScratchSensitivityInternal(eng, sensitivity) ==
  [eng EXCEPT !.scratchSensitivity = sensitivity]

\* setDegreesPerFrameForUnityRateInternal with >= for the > of line 240.
setDegreesAcceptsZero(eng, degrees) ==
  IF degrees >= 0 THEN [eng EXCEPT !.degreesPerFrameForUnityRate = degrees] ELSE eng

\* AudioEngine::setDegreesPerFrameForUnityRateInternal
setDegreesPerFrameForUnityRateInternal(eng, degrees) ==
  IF degrees > 0 THEN [eng EXCEPT !.degreesPerFrameForUnityRate = degrees] ELSE eng

\* onAudioReady without the intro exception of lines 844-850.
platterVolFaderOnly(s, eng) == eng.platterFaderVolume

\* The gain of onAudioReady without the useEngineRateForPlayback_ test of
\* line 847.
platterVolIgnoresRateControl(s, eng) ==
  IF s.playOnceThenLoopSilently /\ ~s.playedOnce /\ ~eng.isFingerDownOnPlatter
  THEN eng.generalMusicVolume ELSE eng.platterFaderVolume

\* onAudioReady, lines 842-850: the gain of the platter voice for one callback.
platterVol(s, eng) ==
  IF s.playOnceThenLoopSilently /\ ~s.playedOnce
     /\ ~eng.isFingerDownOnPlatter /\ ~s.useEngineRateForPlayback
  THEN eng.generalMusicVolume ELSE eng.platterFaderVolume

\* playIntroAndLoopOnPlatterInternal, lines 591-608: the index of the path.
introIndex(initialBasePath) ==
  IF \E i \in 1..Len(platterSamplePaths) : platterSamplePaths[i] = initialBasePath
  THEN (CHOOSE i \in 1..Len(platterSamplePaths) :
          /\ platterSamplePaths[i] = initialBasePath
          /\ \A j \in 1..(i - 1) : platterSamplePaths[j] # initialBasePath) - 1
  ELSE 0

\* playIntroAndLoopOnPlatterInternal, lines 612-617: the stores on the voice.
introStores(s) ==
  [s EXCEPT !.playOnceThenLoopSilently = TRUE, !.playedOnce = FALSE,
            !.loop = FALSE, !.preciseCurrentFrame = 0,
            !.isPlaying = TRUE, !.useEngineRateForPlayback = FALSE]

\* The stores of nextPlatterSampleInternal with the loop flags of the intro
\* (lines 612-614) for those of lines 638-639.
nextSampleStoresOneShot(s) ==
  [s EXCEPT !.loop = FALSE, !.playOnceThenLoopSilently = TRUE,
            !.preciseCurrentFrame = 0,
            !.isPlaying = TRUE, !.useEngineRateForPlayback = FALSE]

\* nextPlatterSampleInternal, lines 638-642: the stores on the voice.
nextSampleStores(s) ==
  [s EXCEPT !.loop = TRUE, !.playOnceThenLoopSilently = FALSE,
            !.preciseCurrentFrame = 0,
            !.isPlaying = TRUE, !.useEngineRateForPlayback = FALSE]

\* The stores of playMusicTrackInternal with loop = true for line 671.
playTrackStoresLooping(s) ==
  [s EXCEPT !.loop = TRUE, !.playOnceThenLoopSilently = FALSE,
            !.preciseCurrentFrame = 0, !.isPlaying = TRUE]

\* playMusicTrackInternal, lines 671-674: the stores on the voice.
playTrackStores(s) ==
  [s EXCEPT !.loop = FALSE, !.playOnceThenLoopSilently = FALSE,
            !.preciseCurrentFrame = 0, !.isPlaying = TRUE]

\* playMusicTrackInternal, lines 663-664: the current entry is already playing.
alreadyPlaying(s, basePathToPlay) ==
  /\ s.isPlaying
  /\ \/ s.filePath = basePathToPlay \o <<Mp3>>
     \/ s.filePath = basePathToPlay \o <<Wav>>
     \/ s.filePath = basePathToPlay

\* a * b / c on signed fixed-point floats (truncated toward zero).
MulDiv(a, b, c) ==
  LET q == MulDivQR(fabs(a), fabs(b), fabs(c))[1]
  IN IF (a < 0) = ((b < 0) = (c < 0)) THEN -q ELSE q

\* scratchPlatterActiveInternal with >= for the > of line 772.
scratchRateMovingAtThreshold(eng, isActiveTouch, value) ==
  IF isActiveTouch
  THEN IF fabs(value) >= MOVEMENT_THRESHOLD
       THEN LET normalizedInputRate ==
                  IF fabs(eng.degreesPerFrameForUnityRate) > 1
                  THEN MulDiv(value, Unit, eng.degreesPerFrameForUnityRate)
                  ELSE IF fabs(value) > 1 THEN value ELSE 0
            IN [rate |-> clamp(MulDiv(normalizedInputRate, eng.scratchSensitivity, Unit),
                               -4 * Unit, 4 * Unit),
                play |-> TRUE]
       ELSE [rate |-> 0, play |-> FALSE]
  ELSE [rate |-> value, play |-> fabs(value) > 1]

\* scratchPlatterActiveInternal without the clamp of line 784.
scratchRateNoClamp(eng, isActiveTouch, value) ==
  IF isActiveTouch
  THEN IF fabs(value) > MOVEMENT_THRESHOLD
       THEN LET normalizedInputRate ==
                  IF fabs(eng.degreesPerFrameForUnityRate) > 1
                  THEN MulDiv(value, Unit, eng.degreesPerFrameForUnityRate)
                  ELSE IF fabs(value) > 1 THEN value ELSE 0
            IN [rate |-> MulDiv(normalizedInputRate, eng.scratchSensitivity, Unit),
                play |-> TRUE]
       ELSE [rate |-> 0, play |-> FALSE]
  ELSE [rate |-> value, play |-> fabs(value) > 1]

\* scratchPlatterActiveInternal with the clamp of line 784 on the coasting
\* rate of line 798 too.
scratchRateCoastClamped(eng, isActiveTouch, value) ==
  IF isActiveTouch
  THEN IF fabs(value) > MOVEMENT_THRESHOLD
       THEN LET normalizedInputRate ==
                  IF fabs(eng.degreesPerFrameForUnityRate) > 1
                  THEN MulDiv(value, Unit, eng.degreesPerFrameForUnityRate)
                  ELSE IF fabs(value) > 1 THEN value ELSE 0
            IN [rate |-> clamp(MulDiv(normalizedInputRate, eng.scratchSensitivity, Unit),
                               -4 * Unit, 4 * Unit),
                play |-> TRUE]
       ELSE [rate |-> 0, play |-> FALSE]
  ELSE [rate |-> clamp(value, -4 * Unit, 4 * Unit), play |-> fabs(value) > 1]

\* scratchPlatterActiveInternal, lines 771-815: the rate stored and the play
\* decision, for a loaded platter.  0.00001f is one unit.
scratchRate(eng, isActiveTouch, value) ==
  IF isActiveTouch
  THEN IF fabs(value) > MOVEMENT_THRESHOLD
       THEN LET normalizedInputRate ==
                  IF fabs(eng.degreesPerFrameForUnityRate) > 1
                  THEN MulDiv(value, Unit, eng.degreesPerFrameForUnityRate)
                  ELSE IF fabs(value) > 1 THEN value ELSE 0
            IN [rate |-> clamp(MulDiv(normalizedInputRate, eng.scratchSensitivity, Unit),
                               -4 * Unit, 4 * Unit),
                play |-> TRUE]
       ELSE [rate |-> 0, play |-> FALSE]
  ELSE [rate |-> value, play |-> fabs(value) > 1]

\* scratchPlatterActiveInternal without the early return of lines 750-758.
scratchPlatterActiveAlways(s, eng, isActiveTouch, value) ==
  LET e1 == [eng EXCEPT !.isFingerDownOnPlatter = isActiveTouch]
      r == scratchRate(e1, isActiveTouch, value)
  IN [smp |-> [s EXCEPT !.useEngineRateForPlayback = TRUE, !.isPlaying = r.play],
      eng |-> [e1 EXCEPT !.platterTargetPlaybackRate = r.rate]]

\* scratchPlatterActiveInternal as one call: the platter and the engine after it.
scratchPlatterActiveInternal(s, eng, isActiveTouch, value) ==
  LET e1 == [eng EXCEPT !.isFingerDownOnPlatter = isActiveTouch]
  IN IF s.totalFrames = 0
     THEN [smp |-> [s EXCEPT !.useEngineRateForPlayback = FALSE], eng |-> e1]
     ELSE LET r == scratchRate(e1, isActiveTouch, value)
          IN [smp |-> [s EXCEPT !.useEngineRateForPlayback = TRUE,
                                !.isPlaying = r.play],
              eng |-> [e1 EXCEPT !.platterTargetPlaybackRate = r.rate]]

\* playIntroAndLoopOnPlatterInternal without the engine stores of lines 618-619.
playIntroKeepsRateAndFader(s, eng, dir, initialBasePath) ==
  LET e1 == [eng EXCEPT !.currentPlatterSampleIndex = introIndex(initialBasePath)]
      s1 == load(s, dir, platterSamplePaths[e1.currentPlatterSampleIndex + 1])
  IN IF s1.totalFrames > 0
     THEN [smp |-> introStores(s1), eng |-> e1]
     ELSE [smp |-> s1, eng |-> e1]

\* playIntroAndLoopOnPlatterInternal as one call.
playIntroAndLoopOnPlatterInternal(s, eng, dir, initialBasePath) ==
  LET e1 == [eng EXCEPT !.currentPlatterSampleIndex = introIndex(initialBasePath)]
      basePathToLoad == platterSamplePaths[e1.currentPlatterSampleIndex + 1]
      s1 == load(s, dir, basePathToLoad)
  IN IF s1.totalFrames > 0
     THEN [smp |-> introStores(s1),
           eng |-> setPlatterFaderVolumeInternal(
                     [e1 EXCEPT !.platterTargetPlaybackRate = Unit], 0)]
     ELSE [smp |-> s1, eng |-> e1]

\* nextPlatterSampleInternal with the index stored only after a load that
\* succeeded.
nextPlatterSampleAdvancesOnSuccess(s, eng, dir) ==
  LET currentIndex == (eng.currentPlatterSampleIndex + 1) % Len(platterSamplePaths)
      e1 == [eng EXCEPT !.currentPlatterSampleIndex = currentIndex]
      s1 == load(s, dir, platterSamplePaths[currentIndex + 1])
  IN IF s1.totalFrames > 0
     THEN [smp |-> nextSampleStores(s1),
           eng |-> [e1 EXCEPT !.platterTargetPlaybackRate = Unit]]
     ELSE [smp |-> [s1 EXCEPT !.isPlaying = FALSE], eng |-> eng]

\* nextPlatterSampleInternal as one call.
nextPlatterSampleInternal(s, eng, dir) ==
  LET currentIndex == (eng.currentPlatterSampleIndex + 1) % Len(platterSamplePaths)
      e1 == [eng EXCEPT !.currentPlatterSampleIndex = currentIndex]
      s1 == load(s, dir, platterSamplePaths[currentIndex + 1])
  IN IF s1.totalFrames > 0
     THEN [smp |-> nextSampleStores(s1),
           eng |-> [e1 EXCEPT !.platterTargetPlaybackRate = Unit]]
     ELSE [smp |-> [s1 EXCEPT !.isPlaying = FALSE], eng |-> e1]

\* playMusicTrackInternal as one call.
playMusicTrackInternal(s, eng, dir) ==
  LET basePathToPlay == musicTrackPaths[eng.currentMusicTrackIndex + 1]
  IN IF alreadyPlaying(s, basePathToPlay)
     THEN [smp |-> [s EXCEPT !.preciseCurrentFrame = 0], eng |-> eng]
     ELSE LET s1 == load(s, dir, basePathToPlay)
          IN IF s1.totalFrames > 0
             THEN [smp |-> playTrackStores(s1), eng |-> eng]
             ELSE [smp |-> [s1 EXCEPT !.isPlaying = FALSE], eng |-> eng]

\* nextMusicTrackAndPlayInternal as one call.
nextMusicTrackAndPlayInternal(s, eng, dir) ==
  playMusicTrackInternal(
    s, [eng EXCEPT !.currentMusicTrackIndex =
          (eng.currentMusicTrackIndex + 1) % Len(musicTrackPaths)], dir)

\* nextMusicTrackAndKeepStateInternal without the resume of lines 717-720.
nextMusicTrackAndStop(s, eng, dir) ==
  LET currentIndex == (eng.currentMusicTrackIndex + 1) % Len(musicTrackPaths)
      e1 == [eng EXCEPT !.currentMusicTrackIndex = currentIndex]
      s1 == load(s, dir, musicTrackPaths[currentIndex + 1])
  IN [smp |-> [s1 EXCEPT !.isPlaying = FALSE], eng |-> e1]

\* nextMusicTrackAndKeepStateInternal as one call.
nextMusicTrackAndKeepStateInternal(s, eng, dir) ==
  LET wasPlaying == s.isPlaying
      currentIndex == (eng.currentMusicTrackIndex + 1) % Len(musicTrackPaths)
      e1 == [eng EXCEPT !.currentMusicTrackIndex = currentIndex]
      s1 == load(s, dir, musicTrackPaths[currentIndex + 1])
  IN IF s1.totalFrames > 0 /\ wasPlaying
     THEN [smp |-> [s1 EXCEPT !.preciseCurrentFrame = 0, !.isPlaying = TRUE],
           eng |-> e1]
     ELSE [smp |-> [s1 EXCEPT !.isPlaying = FALSE], eng |-> e1]

\* stopMusicTrackInternal with a rewind of the cursor.
stopMusicTrackAndRewind(s) == [s EXCEPT !.isPlaying = FALSE, !.preciseCurrentFrame = 0]

\* stopMusicTrackInternal
stopMusicTrackInternal(s) == [s EXCEPT !.isPlaying = FALSE]

\* releasePlatterTouchInternal with a store of isPlaying = true.
releasePlatterTouchResumes(s, eng) ==
  [smp |-> [s EXCEPT !.useEngineRateForPlayback = TRUE, !.isPlaying = TRUE],
   eng |-> [eng EXCEPT !.isFingerDownOnPlatter = FALSE]]

\* releasePlatterTouchInternal
releasePlatterTouchInternal(s, eng) ==
  [smp |-> [s EXCEPT !.useEngineRateForPlayback = TRUE],
   eng |-> [eng EXCEPT !.isFingerDownOnPlatter = FALSE]]

(***************************************************************************)
(* The two threads                                                         *)
(***************************************************************************)
Voices == {"platter", "music"}

Sample(v) == IF v = "platter" THEN platterAudioSample ELSE musicAudioSample

SetSample(v, new) ==
  /\ platterAudioSample' = IF v = "platter" THEN new ELSE platterAudioSample
  /\ musicAudioSample' = IF v = "music" THEN new ELSE musicAudioSample

AudioIdle ==
  [pc |-> "idle", voice |-> "none", i |-> 0, numFrames |-> 0,
   localPreciseCurrentFrame |-> 0, playbackRateToUse |-> 0, effectiveVolume |-> 0,
   result |-> "none"]

\* The state after the constructor, init() and before any facade call.
Init ==
  /\ assets = AssetDir
  /\ platterAudioSample = NewAudioSample
  /\ musicAudioSample = NewAudioSample
  /\ engine = NewAudioEngine
  /\ audio = AudioIdle
  /\ outputBuffer = <<>>
  /\ firstFetch = [v \in Voices |-> "none"]

(* ---- control thread: one action per facade call ---- *)

\* A facade call that went through AudioSample::load returned: the history of
\* the voice's next fetch.
afterLoad(v, new) ==
  [firstFetch EXCEPT ![v] = IF new.totalFrames > 0 THEN "pending" ELSE "none"]

PlayIntro(initialBasePath) ==
  /\ audio.pc # "crashed"
  /\ LET r == playIntroAndLoopOnPlatterInternal(platterAudioSample, engine, assets,
                                                initialBasePath)
     IN /\ platterAudioSample' = r.smp
        /\ engine' = r.eng
        /\ firstFetch' = afterLoad("platter", r.smp)
  /\ UNCHANGED <<assets, musicAudioSample, audio, outputBuffer>>

NextSample ==
  /\ audio.pc # "crashed"
  /\ LET r == nextPlatterSampleInternal(platterAudioSample, engine, assets)
     IN /\ platterAudioSample' = r.smp
        /\ engine' = r.eng
        /\ firstFetch' = afterLoad("platter", r.smp)
  /\ UNCHANGED <<assets, musicAudioSample, audio, outputBuffer>>

\* A music facade call returned with result r; restart: it took the restart
\* path of playMusicTrackInternal (lines 663-668) instead of loading.
PlayTrackFrom(r, restart) ==
  /\ audio.pc # "crashed"
  /\ musicAudioSample' = r.smp
  /\ engine' = r.eng
  /\ firstFetch' = IF restart THEN [firstFetch EXCEPT !["music"] = "restart"]
                   ELSE afterLoad("music", r.smp)
  /\ UNCHANGED <<assets, platterAudioSample, audio, outputBuffer>>

PlayTrack ==
  PlayTrackFrom(playMusicTrackInternal(musicAudioSample, engine, assets),
                alreadyPlaying(musicAudioSample,
                               musicTrackPaths[engine.currentMusicTrackIndex + 1]))

NextTrackAndPlay ==
  PlayTrackFrom(nextMusicTrackAndPlayInternal(musicAudioSample, engine, assets),
                alreadyPlaying(musicAudioSample,
                               musicTrackPaths[((engine.currentMusicTrackIndex + 1)
                                                % Len(musicTrackPaths)) + 1]))

NextTrackKeepState ==
  PlayTrackFrom(nextMusicTrackAndKeepStateInternal(musicAudioSample, engine, assets),
                FALSE)

StopTrack ==
  /\ audio.pc # "crashed"
  /\ musicAudioSample' = stopMusicTrackInternal(musicAudioSample)
  /\ UNCHANGED <<assets, platterAudioSample, engine, audio, outputBuffer, firstFetch>>

ScratchUpdate(isActiveTouch, value) ==
  /\ audio.pc # "crashed"
  /\ LET r == scratchPlatterActiveInternal(platterAudioSample, engine,
                                           isActiveTouch, value)
     IN /\ platterAudioSample' = r.smp
        /\ engine' = r.eng
  /\ UNCHANGED <<assets, musicAudioSample, audio, outputBuffer, firstFetch>>

ReleaseTouch ==
  /\ audio.pc # "crashed"
  /\ LET r == releasePlatterTouchInternal(platterAudioSample, engine)
     IN /\ platterAudioSample' = r.smp
        /\ engine' = r.eng
  /\ UNCHANGED <<assets, musicAudioSample, audio, outputBuffer, firstFetch>>

SetPlatterFaderVolume(volume) ==
  /\ audio.pc # "crashed"
  /\ engine' = setPlatterFaderVolumeInternal(engine, volume)
  /\ UNCHANGED <<assets, platterAudioSample, musicAudioSample, audio, outputBuffer,
                 firstFetch>>

SetMusicMasterVolume(volume) ==
  /\ audio.pc # "crashed"
  /\ engine' = setMusicMasterVolumeInternal(engine, volume)
  /\ UNCHANGED <<assets, platterAudioSample, musicAudioSample, audio, outputBuffer,
                 firstFetch>>

SetScratchSensitivity(sensitivity) ==
  /\ audio.pc # "crashed"
  /\ engine' = setScratchSensitivityInternal(engine, sensitivity)
  /\ UNCHANGED <<assets, platterAudioSample, musicAudioSample, audio, outputBuffer,
                 firstFetch>>

SetDegreesPerFrameForUnityRate(degrees) ==
  /\ audio.pc # "crashed"
  /\ engine' = setDegreesPerFrameForUnityRateInternal(engine, degrees)
  /\ UNCHANGED <<assets, platterAudioSample, musicAudioSample, audio, outputBuffer,
                 firstFetch>>

(* ---- audio thread: onAudioReady and getAudio, frame by frame ---- *)

\* The audio thread after the platter voice: line 854 is next.
ToMusic(numFrames) == [AudioIdle EXCEPT !.pc = "music", !.numFrames = numFrames]
\* The audio thread after the music voice: line 857 is next.
ToReturn(numFrames) == [AudioIdle EXCEPT !.pc = "ret", !.numFrames = numFrames]

\* getAudio, lines 341-389, for voice v: into the frame loop, or back to the
\* caller at once (after).
enterGetAudio(v, s, eng, numFrames, effectiveVolume, after) ==
  IF notPlayable(s) THEN after
  ELSE [pc |-> "check", voice |-> v, i |-> 0, numFrames |-> numFrames,
        localPreciseCurrentFrame |-> s.preciseCurrentFrame,
        playbackRateToUse |-> playbackRateToUse(s, eng),
        effectiveVolume |-> effectiveVolume,
        result |-> "none"]

\* onAudioReady, lines 836-851: memset, the platter gain, into getAudio.
CallbackStart(numFrames) ==
  /\ audio.pc = "idle"
  /\ \E audioData \in StreamBuffers(numFrames) :
       outputBuffer' = memset(audioData, numFrames)
  /\ audio' = enterGetAudio("platter", platterAudioSample, engine, numFrames,
                            platterVol(platterAudioSample, engine), ToMusic(numFrames))
  /\ UNCHANGED <<assets, platterAudioSample, musicAudioSample, engine, firstFetch>>

\* getAudio, lines 393-428, of frame i.
Check ==
  /\ audio.pc = "check"
  /\ LET r == boundaryLogic(Sample(audio.voice), audio.localPreciseCurrentFrame)
     IN /\ SetSample(audio.voice, r.smp)
        /\ audio' = [audio EXCEPT !.pc = IF r.brk THEN "store" ELSE "fetch",
                                  !.localPreciseCurrentFrame = r.local]
  /\ UNCHANGED <<assets, engine, outputBuffer, firstFetch>>

\* getAudio, lines 393-401, of frame i, for the runs that let facade calls in
\* between the one-shot test of line 401 and the loop test of line 405: a
\* playing voice whose cursor is outside the buffer and that has no one-shot
\* pending is left in front of line 405.
CheckOneShot ==
  /\ audio.pc = "check"
  /\ LET s == Sample(audio.voice)
         local == audio.localPreciseCurrentFrame
     IN IF /\ s.isPlaying
           /\ (local >= s.totalFrames * Unit \/ local < 0)
           /\ ~(s.playOnceThenLoopSilently /\ ~s.playedOnce)
        THEN /\ audio' = [audio EXCEPT !.pc = "loopTest"]
             /\ UNCHANGED <<platterAudioSample, musicAudioSample>>
        ELSE LET r == boundaryLogic(s, local)
             IN /\ SetSample(audio.voice, r.smp)
                /\ audio' = [audio EXCEPT !.pc = IF r.brk THEN "store" ELSE "fetch",
                                          !.localPreciseCurrentFrame = r.local]
  /\ UNCHANGED <<assets, engine, outputBuffer, firstFetch>>

\* getAudio, lines 405-428, of frame i.
CheckLoop ==
  /\ audio.pc = "loopTest"
  /\ LET r == loopTest(Sample(audio.voice), audio.localPreciseCurrentFrame)
     IN /\ SetSample(audio.voice, r.smp)
        /\ audio' = [audio EXCEPT !.pc = IF r.brk THEN "store" ELSE "fetch",
                                  !.localPreciseCurrentFrame = r.local]
  /\ UNCHANGED <<assets, engine, outputBuffer, firstFetch>>

\* getAudio, lines 430-464, of frame i, and the loop test of line 393.
Fetch ==
  /\ audio.pc = "fetch"
  /\ outputBuffer' = addFrame(outputBuffer, audio.voice, Sample(audio.voice),
                              audio.localPreciseCurrentFrame, audio.i,
                              audio.effectiveVolume)
  /\ audio' = [audio EXCEPT
                 !.localPreciseCurrentFrame = faddf(@, audio.playbackRateToUse),
                 !.i = @ + 1,
                 !.pc = IF audio.i + 1 < audio.numFrames THEN "check" ELSE "store"]
  /\ firstFetch' = [firstFetch EXCEPT
                      ![audio.voice] =
                         CASE @ = "pending" ->
                                IF audio.localPreciseCurrentFrame = 0
                                THEN "none" ELSE "stale"
                           [] @ = "restart" ->
                                IF audio.localPreciseCurrentFrame = 0
                                THEN "none" ELSE "lost"
                           [] OTHER -> @]
  /\ UNCHANGED <<assets, platterAudioSample, musicAudioSample, engine>>

\* getAudio, line 452 of a frame whose voice a concurrent load left with
\* channels = 0: the integer division by zero traps.
FetchTrap ==
  /\ audio.pc = "fetch"
  /\ Sample(audio.voice).channels = 0
  /\ audio' = [audio EXCEPT !.pc = "crashed"]
  /\ UNCHANGED <<assets, platterAudioSample, musicAudioSample, engine, outputBuffer,
                 firstFetch>>

\* getAudio, line 466: the cursor store that ends the call.
Store ==
  /\ audio.pc = "store"
  /\ SetSample(audio.voice,
               [Sample(audio.voice) EXCEPT
                  !.preciseCurrentFrame = audio.localPreciseCurrentFrame])
  /\ audio' = IF audio.voice = "platter" THEN ToMusic(audio.numFrames)
              ELSE ToReturn(audio.numFrames)
  /\ UNCHANGED <<assets, engine, outputBuffer, firstFetch>>

\* onAudioReady, lines 854-856: the music voice, if it is playing.
MusicEnter ==
  /\ audio.pc = "music"
  /\ audio' = IF musicAudioSample.isPlaying
              THEN enterGetAudio("music", musicAudioSample, engine, audio.numFrames,
                                 engine.generalMusicVolume, ToReturn(audio.numFrames))
              ELSE ToReturn(audio.numFrames)
  /\ UNCHANGED <<assets, platterAudioSample, musicAudioSample, engine,
                 outputBuffer, firstFetch>>

\* onAudioReady, line 857: Continue; the buffer goes back to the stream.
CallbackReturn ==
  /\ audio.pc = "ret"
  /\ audio' = [AudioIdle EXCEPT !.result = "Continue"]
  /\ outputBuffer' = <<>>
  /\ UNCHANGED <<assets, platterAudioSample, musicAudioSample, engine, firstFetch>>

\* Inputs of the facade calls.
IntroPaths == {<<"sounds/haahhh">>, <<"sounds/other">>}
\* Angle deltas of an active touch: still, and fast enough to reach the 4.0 clamp.
ActiveDeltas == {0, 100 * Unit}
\* Coasting rates after release: reverse at 1.5, and stopped.
CoastRates == {-150000, 0}

\* Fader positions: half way, and past the top of the range.
FaderVolumes == {50000, 150000}

AudioStep(maxFrames) ==
  \/ \E n \in 1..maxFrames : CallbackStart(n)
  \/ Check
  \/ Fetch
  \/ Store
  \/ MusicEnter
  \/ CallbackReturn

PlatterCalls ==
  \/ \E p \in IntroPaths : PlayIntro(p)
  \/ NextSample
  \/ \E x \in ActiveDeltas : ScratchUpdate(TRUE, x)
  \/ \E x \in CoastRates : ScratchUpdate(FALSE, x)
  \/ ReleaseTouch

\* Both voices; a facade call runs between two callbacks.
Next ==
  \/ AudioStep(MaxFrames)
  \/ \E p \in IntroPaths : audio.pc = "idle" /\ PlayIntro(p)
  \/ audio.pc = "idle" /\ NextSample
  \/ \E x \in ActiveDeltas : audio.pc = "idle" /\ ScratchUpdate(TRUE, x)
  \/ \E x \in CoastRates : audio.pc = "idle" /\ ScratchUpdate(FALSE, x)
  \/ audio.pc = "idle" /\ ReleaseTouch
  \/ \E x \in FaderVolumes : audio.pc = "idle" /\ SetPlatterFaderVolume(x)
  \/ audio.pc = "idle" /\ PlayTrack
  \/ audio.pc = "idle" /\ NextTrackAndPlay
  \/ audio.pc = "idle" /\ NextTrackKeepState
  \/ audio.pc = "idle" /\ StopTrack

Spec == Init /\ [][Next]_vars

\* The platter's facade calls against the audio thread, interleaved at every
\* step of the callback.
NextRace == AudioStep(RaceFrames) \/ FetchTrap \/ PlatterCalls

SpecRace == Init /\ [][NextRace]_vars

\* The same, with the boundary logic of a frame in two steps.
NextBoundary ==
  \/ \E n \in 1..RaceFrames : CallbackStart(n)
  \/ CheckOneShot
  \/ CheckLoop
  \/ Fetch
  \/ FetchTrap
  \/ Store
  \/ MusicEnter
  \/ CallbackReturn
  \/ PlatterCalls

SpecBoundary == Init /\ [][NextBoundary]_vars

(***************************************************************************)
(* The platter under a scratch whose sensitivity the host changes: facade   *)
(* calls between callbacks.                                                 *)
(***************************************************************************)
\* Sensitivities the host sets: none at all, and the default.
Sensitivities == {0, 17000}

NextScratch ==
  \/ AudioStep(MaxFrames)
  \/ \E p \in IntroPaths : audio.pc = "idle" /\ PlayIntro(p)
  \/ audio.pc = "idle" /\ NextSample
  \/ \E x \in ActiveDeltas : audio.pc = "idle" /\ ScratchUpdate(TRUE, x)
  \/ \E x \in CoastRates : audio.pc = "idle" /\ ScratchUpdate(FALSE, x)
  \/ audio.pc = "idle" /\ ReleaseTouch
  \/ \E x \in Sensitivities : audio.pc = "idle" /\ SetScratchSensitivity(x)

SpecScratch == Init /\ [][NextScratch]_vars

(***************************************************************************)
(* The two volumes: the control thread alone, with both setters and every  *)
(* call that stores a volume or decides which one the platter gets.        *)
(***************************************************************************)
\* Volumes offered to the setters: -0.3, 0.5, 1.0 and 1.5.
VolumeInputs == {-30000, 50000, Unit, 150000}

NextVolume ==
  \/ \E p \in IntroPaths : PlayIntro(p)
  \/ NextSample
  \/ PlayTrack
  \/ StopTrack
  \/ \E x \in ActiveDeltas : ScratchUpdate(TRUE, x)
  \/ ReleaseTouch
  \/ \E x \in VolumeInputs : SetPlatterFaderVolume(x)
  \/ \E x \in VolumeInputs : SetMusicMasterVolume(x)

SpecVolume == Init /\ [][NextVolume]_vars

(***************************************************************************)
(* The platter at fractional rates: cursors between whole frames.          *)
(***************************************************************************)
\* An active delta of 10 degrees (a rate of 0.68 under the defaults).
FractionalDeltas == {10 * Unit}
\* Coasting rates of -0.25 and 0.3.
FractionalCoasts == {-25000, 30000}

NextFraction ==
  \/ AudioStep(MaxFrames)
  \/ audio.pc = "idle" /\ NextSample
  \/ \E x \in FractionalDeltas : audio.pc = "idle" /\ ScratchUpdate(TRUE, x)
  \/ \E x \in FractionalCoasts : audio.pc = "idle" /\ ScratchUpdate(FALSE, x)

SpecFraction == Init /\ [][NextFraction]_vars

(***************************************************************************)
(* A looping platter sample long enough for the float spacing at its end   *)
(* to show on the fixed-point scale, scratched backwards and forwards.     *)
(***************************************************************************)
\* The asset directory of these runs: one platter sample of 600 mono frames.
WrapAssetDir == ( <<"sounds/sample1", Wav>> :> File("wav", 600, 1, TRUE, 2) )

InitWrap ==
  /\ assets = WrapAssetDir
  /\ platterAudioSample = NewAudioSample
  /\ musicAudioSample = NewAudioSample
  /\ engine = NewAudioEngine
  /\ audio = AudioIdle
  /\ outputBuffer = <<>>
  /\ firstFetch = [v \in Voices |-> "none"]

\* Coasting rates of three laps of that sample per frame, both ways.
LapRates == {-1800 * Unit, 1800 * Unit}
\* The slowest reverse coast that plays: 0.00002 frames per frame.
SlowReverse == -2

\* The slow reverse is set at the top of the sample: from further in, the
\* cursor needs millions of frames to reach the start.
NextWrap ==
  \/ AudioStep(MaxFrames)
  \/ audio.pc = "idle" /\ NextSample
  \/ \E x \in LapRates : audio.pc = "idle" /\ ScratchUpdate(FALSE, x)
  \/ /\ audio.pc = "idle"
     /\ platterAudioSample.preciseCurrentFrame = 0
     /\ ScratchUpdate(FALSE, SlowReverse)

SpecWrap == InitWrap /\ [][NextWrap]_vars

(***************************************************************************)
(* Starting and stopping both voices against the audio thread, interleaved *)
(* at every step of a callback of several frames.                          *)
(***************************************************************************)
NextStop ==
  \/ AudioStep(StopFrames)
  \/ \E p \in IntroPaths : PlayIntro(p)
  \/ ScratchUpdate(TRUE, 0)
  \/ PlayTrack
  \/ StopTrack

SpecStop == Init /\ [][NextStop]_vars

(***************************************************************************)
(* The mixer: both voices under both volume setters, facade calls between  *)
(* callbacks.                                                              *)
(***************************************************************************)
\* Master music volumes: 0.3 and the default 0.9.
MusicVolumes == {30000, 90000}

NextMix ==
  \/ AudioStep(MaxFrames)
  \/ \E p \in IntroPaths : audio.pc = "idle" /\ PlayIntro(p)
  \/ audio.pc = "idle" /\ PlayTrack
  \/ audio.pc = "idle" /\ StopTrack
  \/ audio.pc = "idle" /\ ScratchUpdate(TRUE, 100 * Unit)
  \/ \E x \in CoastRates : audio.pc = "idle" /\ ScratchUpdate(FALSE, x)
  \/ audio.pc = "idle" /\ ReleaseTouch
  \/ \E x \in FaderVolumes : audio.pc = "idle" /\ SetPlatterFaderVolume(x)
  \/ \E x \in MusicVolumes : audio.pc = "idle" /\ SetMusicMasterVolume(x)

SpecMix == Init /\ [][NextMix]_vars

(***************************************************************************)
(* The rate computation of scratchPlatterActiveInternal on its own: the    *)
(* control thread alone, with every setter that feeds it.                  *)
(***************************************************************************)
\* Angle deltas of an active touch, in degrees: none, at the movement
\* threshold on both sides, just past it, 0.002, 10 and -100.
RateDeltas == {0, 100, -100, 101, 200, 10 * Unit, -100 * Unit}
\* Coasting rates: none, at the 0.00001 epsilon on both sides, just past it,
\* -1.5, and past the active clamp on both sides.
RateCoasts == {0, 1, -1, 2, -150000, 5 * Unit, -5 * Unit}
\* Sensitivities: none, the default, reversed, and 2.0.
RateSensitivities == {0, 17000, -17000, 2 * Unit}
\* Unity-rate references offered to the setter: negative and zero (rejected),
\* 0.00001, 0.5 and the default 2.5.
RateDegrees == {-Unit, 0, 1, 50000, 250000}

NextRate ==
  \/ NextSample
  \/ \E x \in RateDeltas : ScratchUpdate(TRUE, x)
  \/ \E x \in RateCoasts : ScratchUpdate(FALSE, x)
  \/ \E x \in RateSensitivities : SetScratchSensitivity(x)
  \/ \E x \in RateDegrees : SetDegreesPerFrameForUnityRate(x)

SpecRate == Init /\ [][NextRate]_vars

(***************************************************************************)
(* AudioSample::load on its own: any asset directory, any base path, any   *)
(* voice state before the call.                                            *)
(***************************************************************************)
\* Every file an asset directory of the load runs may hold: audio under a name
\* with no extension, the two variants of "x", an upper-case extension, a .wav
\* of zero frames, WAV bytes under an .mp3 name, and a .wav that comes up short.
LoadFiles ==
  ( <<"x">> :> File("mp3", 1, 1, TRUE, 6) ) @@
  ( <<"x", Mp3>> :> File("mp3", 2, 1, TRUE, 7) ) @@
  ( <<"x", Wav>> :> File("wav", 1, 2, TRUE, 8) ) @@
  ( <<"x", ".WAV">> :> File("wav", 2, 2, TRUE, 9) ) @@
  ( <<"x", Mp3, Wav>> :> File("wav", 0, 2, TRUE, 10) ) @@
  ( <<"x", ".WAV", Mp3>> :> File("wav", 1, 1, TRUE, 11) ) @@
  ( <<"x", ".WAV", Wav>> :> File("wav", 1, 1, FALSE, 12) )

LoadDirs == { [p \in S |-> LoadFiles[p]] : S \in SUBSET (DOMAIN LoadFiles) }

LoadBases == { <<"x">>, <<"x", Mp3>>, <<"x", ".WAV">> }

\* A voice in the middle of playback, every flag away from its default.
UsedSample ==
  [filePath |-> <<"old", Mp3>>, audioData |-> <<1, 2>>, totalFrames |-> 2,
   channels |-> 1, isPlaying |-> TRUE, loop |-> TRUE,
   playOnceThenLoopSilently |-> TRUE, playedOnce |-> TRUE,
   preciseCurrentFrame |-> 150000, audioEnginePtr |-> TRUE,
   useEngineRateForPlayback |-> TRUE]

InitLoad ==
  /\ assets \in LoadDirs
  /\ platterAudioSample \in {NewAudioSample, UsedSample}
  /\ musicAudioSample = NewAudioSample
  /\ engine = NewAudioEngine
  /\ audio = AudioIdle
  /\ outputBuffer = <<>>
  /\ firstFetch = [v \in Voices |-> "none"]

\* platterAudioSample_->load(appAssetManager_, basePath, this)
LoadCall(basePath) ==
  /\ platterAudioSample' = load(platterAudioSample, assets, basePath)
  /\ UNCHANGED <<assets, musicAudioSample, engine, audio, outputBuffer, firstFetch>>

NextLoad == \E basePath \in LoadBases : LoadCall(basePath)

SpecLoad == InitLoad /\ [][NextLoad]_vars

(***************************************************************************)
(* The kernel rows the audio thread selects: a looping platter whose       *)
(* cursor stands at each of the SUBDIVISION_STEPS fractional offsets.      *)
(***************************************************************************)
\* The first cursor of the second frame that selects row j, for every row.
KernelCursors ==
  { Unit + (j * Unit + SUBDIVISION_STEPS - 1) \div SUBDIVISION_STEPS :
      j \in 0..(SUBDIVISION_STEPS - 1) }

\* The engine after one nextPlatterSample, its cursor somewhere in KernelCursors.
InitKernel ==
  /\ assets = AssetDir
  /\ LET r == nextPlatterSampleInternal(NewAudioSample, NewAudioEngine, AssetDir)
     IN /\ platterAudioSample \in
             { [r.smp EXCEPT !.preciseCurrentFrame = c] : c \in KernelCursors }
        /\ engine = r.eng
  /\ musicAudioSample = NewAudioSample
  /\ audio = AudioIdle
  /\ outputBuffer = <<>>
  /\ firstFetch = [v \in Voices |-> "none"]

NextKernel == AudioStep(RaceFrames)

SpecKernel == InitKernel /\ [][NextKernel]_vars

(***************************************************************************)
(* A slow coast far into the 600-frame platter sample, where neighbouring  *)
(* floats are further apart than the coast's rate.                         *)
(***************************************************************************)
\* A coasting rate that takes the cursor from the start to frame 520 in one
\* frame, and the slowest forward coast that plays: 0.00002 frames per frame.
FarJump == 520 * Unit
SlowForward == 2

NextCoast ==
  \/ AudioStep(MaxFrames)
  \/ audio.pc = "idle" /\ NextSample
  \/ /\ audio.pc = "idle"
     /\ platterAudioSample.preciseCurrentFrame = 0
     /\ ScratchUpdate(FALSE, FarJump)
  \/ /\ audio.pc = "idle"
     /\ platterAudioSample.preciseCurrentFrame = FarJump
     /\ ScratchUpdate(FALSE, SlowForward)

SpecCoast == InitWrap /\ [][NextCoast]_vars

(***************************************************************************)
(* A music track played to its end: the control thread starts a track only *)
(* when none is playing and otherwise leaves the music voice alone; the    *)
(* platform keeps calling onAudioReady.                                    *)
(***************************************************************************)
NextPlayout ==
  \/ AudioStep(MaxFrames)
  \/ audio.pc = "idle" /\ ~musicAudioSample.isPlaying /\ PlayTrack
  \/ audio.pc = "idle" /\ ~musicAudioSample.isPlaying /\ NextTrackAndPlay
  \/ audio.pc = "idle" /\ NextSample

SpecPlayout == Init /\ [][NextPlayout]_vars /\ WF_vars(AudioStep(MaxFrames))

(***************************************************************************)
(* Changing the music track while it plays and while it is stopped, with   *)
(* a second track that decodes and with one that does not.                 *)
(***************************************************************************)
\* The asset directory of the engine runs, and the same with a tracks/trackB
\* whose PCM read is complete.
TrackDirs ==
  { AssetDir,
    [AssetDir EXCEPT ![<<"tracks/trackB", Wav>>] = File("wav", 2, 1, TRUE, 5)] }

InitTracks ==
  /\ assets \in TrackDirs
  /\ platterAudioSample = NewAudioSample
  /\ musicAudioSample = NewAudioSample
  /\ engine = NewAudioEngine
  /\ audio = AudioIdle
  /\ outputBuffer = <<>>
  /\ firstFetch = [v \in Voices |-> "none"]

\* playTrack is called on the first entry only: further entries are reached
\* with nextTrackKeepState.
NextTracks ==
  \/ AudioStep(MaxFrames)
  \/ audio.pc = "idle" /\ engine.currentMusicTrackIndex = 0 /\ PlayTrack
  \/ audio.pc = "idle" /\ StopTrack
  \/ audio.pc = "idle" /\ NextTrackKeepState

SpecTracks == InitTracks /\ [][NextTracks]_vars

(***************************************************************************)
(* The output stream: startStream and stopStream beside the platform's own *)
(* state changes.                                                          *)
(***************************************************************************)
\* oboe::StreamState, as far as the engine's calls can produce it.
StreamStates ==
  {"Open", "Starting", "Started", "Stopping", "Stopped", "Closed", "Disconnected"}

\* What requestStart / requestStop can answer.
RequestResults == {"OK", "ErrorDisconnected", "ErrorInvalidState"}

\* audioStream_->requestStart() / requestStop(): the platform receives the
\* request `call`, answers `result` and moves to `pending` when it accepts.
request(eng, call, pending, result) ==
  [eng EXCEPT
     !.streamRequests = Append(@, [call |-> call, from |-> eng.audioStream,
                                   result |-> result]),
     !.audioStream = IF result = "OK" THEN pending
                     ELSE IF result = "ErrorDisconnected" THEN "Disconnected"
                     ELSE @,
     !.streamResult = result]

\* AudioEngine::startStream without the tests of lines 534-541.
startStreamUnchecked(eng, result) ==
  IF eng.audioStream = "null"
  THEN [eng EXCEPT !.streamResult = "ErrorNull"]
  ELSE request(eng, "requestStart", "Starting", result)

\* AudioEngine::startStream; `result` is the platform's answer if it is asked.
startStream(eng, result) ==
  IF eng.audioStream = "null"
  THEN [eng EXCEPT !.streamResult = "ErrorNull"]
  ELSE IF eng.audioStream \in {"Started", "Starting"}
  THEN [eng EXCEPT !.streamResult = "OK"]
  ELSE IF eng.audioStream \in {"Closed", "Disconnected"}
  THEN [eng EXCEPT !.streamResult = "ErrorClosed"]
  ELSE request(eng, "requestStart", "Starting", result)

\* AudioEngine::stopStream.
stopStream(eng, result) ==
  IF eng.audioStream = "null"
  THEN [eng EXCEPT !.streamResult = "ErrorNull"]
  ELSE IF eng.audioStream \in {"Stopped", "Stopping"}
  THEN [eng EXCEPT !.streamResult = "OK"]
  ELSE IF eng.audioStream \in {"Closed", "Disconnected"}
  THEN [eng EXCEPT !.streamResult = "ErrorClosed"]
  ELSE request(eng, "requestStop", "Stopping", result)

StartStream ==
  /\ Len(engine.streamRequests) < MaxRequests
  /\ \E result \in RequestResults : engine' = startStream(engine, result)
  /\ UNCHANGED <<assets, platterAudioSample, musicAudioSample, audio,
                 outputBuffer, firstFetch>>

StopStream ==
  /\ Len(engine.streamRequests) < MaxRequests
  /\ \E result \in RequestResults : engine' = stopStream(engine, result)
  /\ UNCHANGED <<assets, platterAudioSample, musicAudioSample, audio,
                 outputBuffer, firstFetch>>

\* The platform on its own: a pending start or stop completes, the device
\* goes away, a disconnected stream is closed by the error thread.
StreamStateChange ==
  /\ \/ engine.audioStream = "Starting"
        /\ engine' = [engine EXCEPT !.audioStream = "Started"]
     \/ engine.audioStream = "Stopping"
        /\ engine' = [engine EXCEPT !.audioStream = "Stopped"]
     \/ engine.audioStream \in StreamStates \ {"Closed", "Disconnected"}
        /\ engine' = [engine EXCEPT !.audioStream = "Disconnected"]
     \/ engine.audioStream = "Disconnected"
        /\ engine' = [engine EXCEPT !.audioStream = "Closed"]
  /\ UNCHANGED <<assets, platterAudioSample, musicAudioSample, audio,
                 outputBuffer, firstFetch>>

\* After AudioEngine::init: the stream is open, or openStream failed and
\* audioStream_ was reset.
InitStream ==
  /\ assets = AssetDir
  /\ platterAudioSample = NewAudioSample
  /\ musicAudioSample = NewAudioSample
  /\ engine \in {NewAudioEngine, [NewAudioEngine EXCEPT !.audioStream = "null"]}
  /\ audio = AudioIdle
  /\ outputBuffer = <<>>
  /\ firstFetch = [v \in Voices |-> "none"]

NextStream == StartStream \/ StopStream \/ StreamStateChange

SpecStream == InitStream /\ [][NextStream]_vars

(***************************************************************************)
(* Properties                                                              *)
(***************************************************************************)
\* The buffer of a voice: what load publishes.
Buffer(s) == <<s.audioData, s.totalFrames, s.channels>>

SampleNext(v) == IF v = "platter" THEN platterAudioSample' ELSE musicAudioSample'

\* C1: load never clears, resizes or replaces a voice's buffer, frameCount or
\* channelCount while a render call that has passed its isPlaying check is
\* still fetching frames from that voice.
C1_BufferStableWhileFetching ==
  [][\A v \in Voices :
       (audio.pc = "fetch" /\ audio.voice = v) => Buffer(SampleNext(v)) = Buffer(Sample(v))]_vars

\* C2: the audio thread never fetches from a newly loaded buffer with a stale
\* cursor: the first frame fetched from the buffer a load published is fetched
\* at cursor 0, in every interleaving of the load with a render call.
C2_FirstFetchAtCursorZero == \A v \in Voices : firstFetch[v] # "stale"

\* The getSampleAt calls behind the output buffer of the callback in progress.
Taps == { <<c.voice, c.taps[k]>> :
            c \in UNION { outputBuffer[slot] : slot \in 1..Len(outputBuffer) },
            k \in 1..NUM_TAPS }

\* C3: with no load running beside the callback, every index getSampleAt
\* dereferences lies in [0, frameCount * channelCount): the frame is the
\* floored modulo of the requested frame when loop is set and the requested
\* frame clamped into [0, frameCount - 1] when it is not, whatever the cursor,
\* the rate and the tap offset.
C3_IndexInRange ==
  \A vt \in Taps :
    LET s == Sample(vt[1])
        t == vt[2]
    IN /\ t.called
       /\ t.deref
       /\ 0 <= t.index
       /\ t.index < s.totalFrames * s.channels
       /\ t.frame = IF t.loop THEN t.frameIndex % s.totalFrames
                    ELSE clamp(t.frameIndex, 0, s.totalFrames - 1)

\* Both policies at work in one callback: a looping platter tap before frame 0
\* and a non-looping music tap past the last frame.
C3_Witness ==
  /\ \E vt \in Taps : vt[1] = "platter" /\ vt[2].loop /\ vt[2].frameIndex < 0
  /\ \E vt \in Taps : /\ vt[1] = "music"
                      /\ ~vt[2].loop
                      /\ vt[2].frameIndex >= musicAudioSample.totalFrames

\* The playback state AudioSample::load leaves behind.
PlaybackDefaults(s) ==
  /\ s.preciseCurrentFrame = 0
  /\ ~s.isPlaying
  /\ ~s.loop
  /\ ~s.playOnceThenLoopSilently
  /\ ~s.playedOnce
  /\ ~s.useEngineRateForPlayback

\* C4: every load, whether a variant decodes or not and whatever the voice
\* was doing before, returns with cursor 0, isPlaying, loop,
\* oneShotThenLoopSilent, hasCompletedOneShot and useExternalRate all false.
C4_LoadResetsPlayback ==
  [][\A basePath \in LoadBases :
       LoadCall(basePath) => PlaybackDefaults(platterAudioSample')]_vars

\* A load of "x" has failed although assets named "x" and "x.WAV" hold audio.
C4_Witness ==
  /\ platterAudioSample.filePath = <<"x">>
  /\ platterAudioSample.audioData = <<>>
  /\ <<"x">> \in DOMAIN assets
  /\ PlaybackDefaults(platterAudioSample)

\* A path decodes: the asset exists and holds complete audio of the format
\* its extension names.
Decodes(dir, path) ==
  /\ path \in DOMAIN dir
  /\ dir[path].complete
  /\ \/ dir[path].fmt = "wav" /\ tolower(path[Len(path)]) = Wav
     \/ dir[path].fmt = "mp3" /\ tolower(path[Len(path)]) = Mp3

\* The variants of a base path, in the order of the claim.
Variants(basePath) == <<basePath, basePath \o <<Mp3>>, basePath \o <<Wav>>>>

NoVariantDecodes(dir, basePath) ==
  \A k \in 1..3 : ~Decodes(dir, Variants(basePath)[k])

\* The voice holds the decoded file of path.
Holds(s, dir, path) ==
  /\ s.filePath = path
  /\ s.audioData = PcmData(dir[path])
  /\ s.totalFrames = dir[path].frames
  /\ s.channels = dir[path].channels

Unloaded(s) == s.audioData = <<>> /\ s.totalFrames = 0 /\ s.channels = 0

\* C6: load tries the literal basePath, then basePath + ".mp3", then
\* basePath + ".wav", stops at the first one that decodes and records it as
\* the resolved path: the voice holds the first variant, in that order, that
\* decodes (".mp3" when both ".mp3" and ".wav" do).
C6_FirstDecodingVariant ==
  [][\A basePath \in LoadBases :
       LoadCall(basePath) =>
         \A k \in 1..3 :
           (/\ Decodes(assets, Variants(basePath)[k])
            /\ \A j \in 1..(k - 1) : ~Decodes(assets, Variants(basePath)[j]))
           => Holds(platterAudioSample', assets, Variants(basePath)[k])]_vars

\* "x.mp3" and "x.wav" both exist and the voice resolved to "x.mp3".
C6_Witness ==
  /\ {<<"x", Mp3>>, <<"x", Wav>>} \subseteq DOMAIN assets
  /\ Holds(platterAudioSample, assets, <<"x", Mp3>>)

\* The facade calls that reach AudioSample::load, with the base path they load.
PlatterLoads(basePath) ==
  /\ (\E p \in IntroPaths : PlayIntro(p)) \/ NextSample
  /\ basePath = platterSamplePaths[engine'.currentPlatterSampleIndex + 1]

MusicLoads(basePath) ==
  /\ \/ (PlayTrack \/ NextTrackAndPlay) /\ ~alreadyPlaying(musicAudioSample, basePath)
     \/ NextTrackKeepState
  /\ basePath = musicTrackPaths[engine'.currentMusicTrackIndex + 1]

\* C5: when no variant of the base path decodes, the facade call that asked
\* for the load (playIntroThenLoop, nextSample, playTrack, nextTrackAndPlay,
\* nextTrackKeepState) returns with the voice unloaded (no frames, no channels,
\* empty buffer) and not playing, even if it held a buffer before; and no
\* callback adds anything to the output from a voice with an empty buffer.
C5_FailedLoadLeavesSilence ==
  /\ [][\A basePath \in {platterSamplePaths[i] : i \in 1..Len(platterSamplePaths)} :
          (PlatterLoads(basePath) /\ NoVariantDecodes(assets, basePath))
          => Unloaded(platterAudioSample') /\ ~platterAudioSample'.isPlaying]_vars
  /\ [][\A basePath \in {musicTrackPaths[i] : i \in 1..Len(musicTrackPaths)} :
          (MusicLoads(basePath) /\ NoVariantDecodes(assets, basePath))
          => Unloaded(musicAudioSample') /\ ~musicAudioSample'.isPlaying]_vars
  /\ [](\A vt \in Taps : Sample(vt[1]).audioData # <<>>)

\* Both voices have lost a buffer to a failed load ("sounds/sample2" has no
\* file, "tracks/trackB.wav" comes up short; each is reached only from a
\* loaded predecessor), and a callback is past both of them.
C5_Witness ==
  /\ platterAudioSample.filePath = <<"sounds/sample2">>
  /\ musicAudioSample.filePath = <<"tracks/trackB">>
  /\ Unloaded(platterAudioSample) /\ Unloaded(musicAudioSample)
  /\ audio.pc = "ret"

\* C7: when playIntroThenLoop returns after a load that produced frames, the
\* platter has oneShotThenLoopSilent = true, hasCompletedOneShot = false,
\* loop = false, isPlaying = true, cursor = 0 and useExternalRate = false, the
\* platter rate is 1.0 and the platter fader volume is 0.
C7_IntroPostState ==
  [][\A p \in IntroPaths :
       (PlayIntro(p) /\ platterAudioSample'.totalFrames > 0) =>
         /\ platterAudioSample'.playOnceThenLoopSilently
         /\ ~platterAudioSample'.playedOnce
         /\ ~platterAudioSample'.loop
         /\ platterAudioSample'.isPlaying
         /\ platterAudioSample'.preciseCurrentFrame = 0
         /\ ~platterAudioSample'.useEngineRateForPlayback
         /\ engine'.platterTargetPlaybackRate = Unit
         /\ engine'.platterFaderVolume = 0]_vars

\* playIntroThenLoop has just returned with "sounds/haahhh.mp3" loaded, and no
\* frame of it has been fetched yet.
C7_Witness ==
  /\ platterAudioSample.filePath = <<"sounds/haahhh", Mp3>>
  /\ platterAudioSample.playOnceThenLoopSilently
  /\ platterAudioSample.isPlaying
  /\ firstFetch["platter"] = "pending"
  /\ audio.pc = "idle"

\* The voice is in its one-shot phase.
OneShotPending(s) == s.playOnceThenLoopSilently /\ ~s.playedOnce

\* The cursor is outside [0, frameCount).
Outside(s, cursor) == cursor < 0 \/ cursor >= s.totalFrames * Unit

\* The platter's facade calls that load.
PlatterLoadCall == (\E p \in IntroPaths : PlayIntro(p)) \/ NextSample

\* C8: a one-shot-then-loop voice is fetched with loop = false until its cursor
\* leaves [0, N); at the first frame whose cursor is outside, the render sets
\* hasCompletedOneShot and loop, puts the cursor at exactly 0 and goes on to
\* fetch frame 0, with isPlaying still true; hasCompletedOneShot and loop then
\* stay true until the next load.
C8_OneShotThenLoop ==
  /\ [](OneShotPending(platterAudioSample) => ~platterAudioSample.loop)
  /\ [][(/\ audio.pc = "check" /\ audio.voice = "platter"
         /\ platterAudioSample.isPlaying
         /\ OneShotPending(platterAudioSample)
         /\ Outside(platterAudioSample, audio.localPreciseCurrentFrame))
        => /\ platterAudioSample'.playedOnce
           /\ platterAudioSample'.loop
           /\ platterAudioSample'.isPlaying
           /\ audio'.localPreciseCurrentFrame = 0
           /\ audio'.pc = "fetch"
           /\ audio'.i = audio.i]_vars
  /\ [][(/\ platterAudioSample.playOnceThenLoopSilently
         /\ platterAudioSample.playedOnce
         /\ platterAudioSample.loop)
        => \/ platterAudioSample'.playedOnce /\ platterAudioSample'.loop
           \/ PlatterLoadCall]_vars

\* The one-shot has just ended in the middle of a callback: frames were fetched
\* before it, and frame 0 is about to be fetched with loop set.
C8_Witness ==
  /\ audio.pc = "fetch" /\ audio.voice = "platter" /\ audio.i > 0
  /\ audio.localPreciseCurrentFrame = 0
  /\ platterAudioSample.playOnceThenLoopSilently
  /\ platterAudioSample.playedOnce
  /\ platterAudioSample.loop
  /\ platterAudioSample.isPlaying

\* What voice v has added to the output buffer of the callback in progress.
Written(v) == { vt \in Taps : vt[1] = v }

\* C9: a playing voice with loop = false and no one-shot pending: at the first
\* frame whose cursor is outside [0, N) the render sets isPlaying = false,
\* writes no sample for that frame and leaves the frame loop; the audio thread
\* never sets isPlaying back, and a voice that is not playing adds nothing to
\* any later callback.
C9_EndOfNonLooping ==
  /\ [][\A v \in Voices :
          (/\ audio.pc = "check" /\ audio.voice = v
           /\ Sample(v).isPlaying
           /\ ~Sample(v).loop
           /\ ~OneShotPending(Sample(v))
           /\ Outside(Sample(v), audio.localPreciseCurrentFrame))
          => /\ ~SampleNext(v).isPlaying
             /\ audio'.pc = "store"
             /\ outputBuffer' = outputBuffer]_vars
  /\ [][\A v \in Voices :
          (~Sample(v).isPlaying /\ SampleNext(v).isPlaying) => audio' = audio]_vars
  /\ [][\A v \in Voices :
          ~Sample(v).isPlaying => Written(v)' \subseteq Written(v)]_vars

\* The music track ran out in the middle of a callback: its first frames are
\* in the output buffer, the voice has stopped and the call is at its end.
C9_Witness ==
  /\ audio.pc = "store" /\ audio.voice = "music"
  /\ audio.i > 0 /\ audio.i < audio.numFrames
  /\ ~musicAudioSample.isPlaying
  /\ ~musicAudioSample.loop
  /\ Outside(musicAudioSample, audio.localPreciseCurrentFrame)
  /\ Written("music") # {}

\* The voice is not playing or has no audio.
Silent(s) == ~s.isPlaying \/ s.audioData = <<>> \/ s.totalFrames = 0

\* C10: a render of a voice that is not playing or has no audio is a no-op:
\* the call returns at once, adds nothing to the output buffer (all zeros for
\* the platter, which comes first; as the platter left it for the music) and
\* leaves the voice's cursor and flags as they were.
C10_SilentVoiceNoOp ==
  /\ [][((\E n \in 1..MaxFrames : CallbackStart(n)) /\ Silent(platterAudioSample))
        => /\ audio'.pc = "music"
           /\ Taps' = {}
           /\ platterAudioSample' = platterAudioSample]_vars
  /\ [][(MusicEnter /\ Silent(musicAudioSample))
        => /\ audio'.pc = "ret"
           /\ outputBuffer' = outputBuffer
           /\ musicAudioSample' = musicAudioSample]_vars

\* A callback has gone past both voices, the platter stopped and the music
\* unloaded, and the output buffer is still all zeros.
C10_Witness ==
  /\ audio.pc = "ret"
  /\ platterAudioSample.audioData # <<>> /\ ~platterAudioSample.isPlaying
  /\ platterAudioSample.preciseCurrentFrame # 0
  /\ Unloaded(musicAudioSample)
  /\ Taps = {}
  /\ Len(outputBuffer) = MaxFrames * StreamChannels

\* C11: a frame of a playing voice under external-rate control whose rate is
\* below 1e-5 in magnitude (one unit; 0 included) is silence: the render adds
\* nothing to the output for it, does not move the cursor and makes no boundary
\* transition (no wrap, no one-shot completion, no isPlaying change).
C11_StillRateIsSilence ==
  [][\A v \in Voices :
       (/\ audio.voice = v /\ audio.pc \in {"check", "fetch"}
        /\ Sample(v).isPlaying
        /\ Sample(v).useEngineRateForPlayback
        /\ fabs(audio.playbackRateToUse) < 1)
       => /\ outputBuffer' = outputBuffer
          /\ SampleNext(v) = Sample(v)
          /\ audio'.localPreciseCurrentFrame = audio.localPreciseCurrentFrame]_vars

\* C12: under external-rate control the platter rate is sampled for each
\* output frame: a frame that starts after the control thread stored a new
\* rate advances the cursor by that rate, also within the call in progress.
\* (audio.playbackRateToUse is what the frame's cursor advance adds; the call
\* took it from the engine: a rate other than 1.0 has no other origin.)
C12_RateSampledPerFrame ==
  [][(/\ audio.pc = "check" /\ audio.voice = "platter"
      /\ audio'.pc = "fetch"
      /\ platterAudioSample.useEngineRateForPlayback
      /\ audio.playbackRateToUse # Unit)
     => audio.playbackRateToUse = engine.platterTargetPlaybackRate]_vars

\* The movement threshold of the claims, 0.001.
Threshold == Unit \div 1000

\* scratchUpdate(isActive, v) is called on a loaded platter.
ScratchOnLoaded(isActive, v) ==
  ScratchUpdate(isActive, v) /\ platterAudioSample.totalFrames > 0

\* C13: scratchUpdate(true, v) on a loaded platter with |v| <= 0.001 (the
\* threshold itself included) stores platterTargetRate = 0 and isPlaying =
\* false, whatever the sensitivity and the unity-rate reference.
C13_StationaryTouch ==
  [][\A v \in RateDeltas :
       (ScratchOnLoaded(TRUE, v) /\ fabs(v) <= Threshold)
       => /\ engine'.platterTargetPlaybackRate = 0
          /\ ~platterAudioSample'.isPlaying]_vars

\* A stationary touch has stopped the platter with a sensitivity of 2.0 and a
\* unity-rate reference of 0.5 in force.
C13_Witness ==
  /\ platterAudioSample.totalFrames > 0
  /\ engine.isFingerDownOnPlatter
  /\ platterAudioSample.useEngineRateForPlayback
  /\ engine.platterTargetPlaybackRate = 0
  /\ ~platterAudioSample.isPlaying
  /\ engine.scratchSensitivity = 2 * Unit
  /\ engine.degreesPerFrameForUnityRate = 50000

\* v / unityRef as a float on the model's scale; a quotient past 2e9 stands for
\* itself (the clamp decides whatever follows it).
Normalized(v, unityRef) ==
  IF fabs(v) \div unityRef >= 20000
  THEN (IF v < 0 THEN -2000000000 ELSE 2000000000)
  ELSE MulDiv(v, Unit, unityRef)

\* clamp(n * sensitivity, -4, 4)
ScaledAndClamped(n, sensitivity) ==
  IF sensitivity = 0 THEN 0
  ELSE IF fabs(n) >= 2000000000
  THEN (IF (n < 0) = (sensitivity < 0) THEN 4 * Unit ELSE -4 * Unit)
  ELSE clamp(MulDiv(n, sensitivity, Unit), -4 * Unit, 4 * Unit)

\* C14 as stated: scratchUpdate(true, v) on a loaded platter with |v| > 0.001
\* stores platterTargetRate = clamp((v / unityRef) * sensitivity, -4, 4) and
\* isPlaying = true, for every unity-rate reference.
C14_AsStated ==
  [][\A v \in RateDeltas :
       (ScratchOnLoaded(TRUE, v) /\ fabs(v) > Threshold)
       => /\ engine'.platterTargetPlaybackRate =
               ScaledAndClamped(Normalized(v, engine.degreesPerFrameForUnityRate),
                                engine.scratchSensitivity)
          /\ platterAudioSample'.isPlaying]_vars

\* C14, amended: scratchUpdate(true, v) on a loaded platter with |v| > 0.001
\* stores isPlaying = true and platterTargetRate = clamp(n * sensitivity, -4, 4),
\* where n = v / unityRef when unityRef > 0.00001 and n = v when it is not; the
\* stored rate is within [-4, 4], and (v = 10, sensitivity = 0.17,
\* unityRef = 2.5) stores 0.68.
C14_ActiveRate ==
  [][\A v \in RateDeltas :
       (ScratchOnLoaded(TRUE, v) /\ fabs(v) > Threshold)
       => /\ engine'.platterTargetPlaybackRate =
               ScaledAndClamped(
                 IF engine.degreesPerFrameForUnityRate > 1
                 THEN Normalized(v, engine.degreesPerFrameForUnityRate) ELSE v,
                 engine.scratchSensitivity)
          /\ engine'.platterTargetPlaybackRate >= -4 * Unit
          /\ engine'.platterTargetPlaybackRate <= 4 * Unit
          /\ platterAudioSample'.isPlaying
          /\ (/\ v = 10 * Unit
              /\ engine.scratchSensitivity = 17000
              /\ engine.degreesPerFrameForUnityRate = 250000)
             => engine'.platterTargetPlaybackRate = 68000]_vars

\* An active touch has stored 0.68 under the default sensitivity and reference.
C14_Witness ==
  /\ platterAudioSample.totalFrames > 0
  /\ engine.isFingerDownOnPlatter
  /\ platterAudioSample.isPlaying
  /\ engine.platterTargetPlaybackRate = 68000
  /\ engine.scratchSensitivity = 17000
  /\ engine.degreesPerFrameForUnityRate = 250000

\* C15: scratchUpdate(false, r) on a loaded platter stores platterTargetRate =
\* r as it is (not scaled, not normalized, not clamped) and isPlaying =
\* (|r| > 0.00001).
C15_CoastRate ==
  [][\A r \in RateCoasts :
       ScratchOnLoaded(FALSE, r)
       => /\ engine'.platterTargetPlaybackRate = r
          /\ platterAudioSample'.isPlaying = (fabs(r) > 1)]_vars

\* A coasting rate of -5.0 is stored and playing, under a sensitivity of 2.0.
C15_Witness ==
  /\ platterAudioSample.totalFrames > 0
  /\ ~engine.isFingerDownOnPlatter
  /\ platterAudioSample.useEngineRateForPlayback
  /\ engine.platterTargetPlaybackRate = -5 * Unit
  /\ platterAudioSample.isPlaying
  /\ engine.scratchSensitivity = 2 * Unit

\* What the step adds to the output buffer for voice v.
Added(v) ==
  { c \in UNION { outputBuffer'[slot] \ outputBuffer[slot] :
                    slot \in 1..Min(Len(outputBuffer), Len(outputBuffer')) } :
      c.voice = v }

\* The platter gain the claim gives for the callback that starts now.
PlatterGain ==
  IF /\ platterAudioSample.playOnceThenLoopSilently
     /\ ~platterAudioSample.playedOnce
     /\ ~engine.isFingerDownOnPlatter
     /\ ~platterAudioSample.useEngineRateForPlayback
  THEN engine.generalMusicVolume
  ELSE engine.platterFaderVolume

\* C16: the platter's gain for a callback is the platter fader volume, except
\* that it is the master music volume exactly when the platter is
\* play-once-then-loop, has not played once, the finger is not down and the
\* platter is not under the engine's rate, as the callback starts; every
\* sample the platter adds in the callback carries that gain.  The music is
\* rendered only if it is playing, and every sample it adds carries the
\* master music volume.
C16_VoiceGains ==
  /\ [][(audio.pc = "idle" /\ audio'.pc = "check")
        => /\ audio'.voice = "platter"
           /\ audio'.effectiveVolume = PlatterGain]_vars
  /\ [][(audio.pc = "fetch" /\ audio.voice = "platter")
        => /\ Added("music") = {}
           /\ \A c \in Added("platter") : c.volume = audio.effectiveVolume]_vars
  /\ [][(audio.pc = "music" /\ ~musicAudioSample.isPlaying) => audio'.pc = "ret"]_vars
  /\ [][(audio.pc = "fetch" /\ audio.voice = "music")
        => /\ Added("platter") = {}
           /\ musicAudioSample.isPlaying
           /\ \A c \in Added("music") : c.volume = engine.generalMusicVolume]_vars

\* A callback is about to return a slot where the untouched intro was added
\* with the master music volume of 0.3, under a fader of 0.5, beside the music.
C16_Witness ==
  /\ audio.pc = "ret"
  /\ engine.generalMusicVolume = 30000
  /\ engine.platterFaderVolume = 50000
  /\ \E slot \in 1..Len(outputBuffer) :
       /\ \E c \in outputBuffer[slot] : c.voice = "platter" /\ c.volume = 30000
       /\ \E c \in outputBuffer[slot] : c.voice = "music" /\ c.volume = 30000

\* The contributions of voice v in a slot.
Of(v, slot) == { c \in outputBuffer[slot] : c.voice = v }

\* C17: the callback zero-fills all numFrames * channelCount slots first;
\* from then to its return no step takes anything out of a slot (each voice
\* only adds); so each slot the callback returns holds at most one
\* contribution of the platter and at most one of the music, on top of 0, and
\* nothing the buffer held before the callback.
C17_MixIsAdditive ==
  /\ [][\A n \in 1..MaxFrames :
          CallbackStart(n)
          => /\ Len(outputBuffer') = n * StreamChannels
             /\ \A slot \in 1..Len(outputBuffer') : outputBuffer'[slot] = {}]_vars
  /\ [][audio.pc \notin {"idle", "ret"}
        => /\ Len(outputBuffer') = Len(outputBuffer)
           /\ \A slot \in 1..Len(outputBuffer) :
                outputBuffer[slot] \subseteq outputBuffer'[slot]]_vars
  /\ [](\A slot \in 1..Len(outputBuffer) :
          /\ \A c \in outputBuffer[slot] : c.voice \in Voices
          /\ \A v \in Voices : Cardinality(Of(v, slot)) <= 1)

\* A callback is about to return a slot that holds the sum of a platter and a
\* music contribution.
C17_Witness ==
  /\ audio.pc = "ret"
  /\ \E slot \in 1..Len(outputBuffer) :
       /\ Cardinality(Of("platter", slot)) = 1
       /\ Cardinality(Of("music", slot)) = 1

\* The audio thread is past the checks of a frame of voice v.
Started(v) == audio.voice = v /\ audio.pc = "fetch"

\* The slots the step changes.
Changed ==
  { slot \in 1..Min(Len(outputBuffer), Len(outputBuffer')) :
      outputBuffer'[slot] # outputBuffer[slot] }

\* C18: while isPlaying is false for a voice and no step stores true, the
\* audio thread adds for that voice only when it is past the checks of a frame
\* already (the store came after them); it then adds that one frame and is
\* not past the checks of any other frame again: the next frame's isPlaying
\* test leaves the loop, and a later render call returns at once.
C18_StopWithinOneFrame ==
  [][\A v \in Voices :
       (~Sample(v).isPlaying /\ ~SampleNext(v).isPlaying)
       => IF Started(v)
          THEN Added(v) # {}
               => /\ ~Started(v)'
                  /\ \A slot \in Changed : (slot - 1) \div StreamChannels = audio.i
          ELSE Added(v) = {} /\ ~Started(v)']_vars

\* stopTrack came while the music was past the checks of a frame that is not
\* the last of the callback: that frame is written, the loop is left with the
\* cursor inside the track, and the rest of the callback is not rendered.
C18_Witness ==
  /\ audio.voice = "music" /\ audio.pc = "store"
  /\ ~musicAudioSample.isPlaying
  /\ audio.i >= 1 /\ audio.i < audio.numFrames
  /\ ~Outside(musicAudioSample, audio.localPreciseCurrentFrame)

\* C19: stopTrack stores isPlaying = false on the music voice and changes
\* nothing else: the cursor, loop, the play-once flags, the buffer, the
\* resolved path and the current track index are what they were before the
\* call, and so are the platter and the rest of the engine.
C19_StopTrackFrame ==
  [][StopTrack
     => /\ ~musicAudioSample'.isPlaying
        /\ musicAudioSample'.preciseCurrentFrame = musicAudioSample.preciseCurrentFrame
        /\ musicAudioSample'.loop = musicAudioSample.loop
        /\ musicAudioSample'.playOnceThenLoopSilently
             = musicAudioSample.playOnceThenLoopSilently
        /\ musicAudioSample'.playedOnce = musicAudioSample.playedOnce
        /\ Buffer(musicAudioSample') = Buffer(musicAudioSample)
        /\ musicAudioSample'.filePath = musicAudioSample.filePath
        /\ engine'.currentMusicTrackIndex = engine.currentMusicTrackIndex
        /\ engine' = engine
        /\ platterAudioSample' = platterAudioSample]_vars

\* The music is stopped between callbacks with its cursor inside the track
\* and past the first frame: stopTrack left the cursor where it was.
C19_Witness ==
  /\ audio.pc = "idle"
  /\ ~musicAudioSample.isPlaying
  /\ musicAudioSample.totalFrames > 0
  /\ musicAudioSample.preciseCurrentFrame > 0
  /\ ~Outside(musicAudioSample, musicAudioSample.preciseCurrentFrame)

\* C20: when a looping voice (no one-shot pending) starts a frame with its
\* cursor outside [0, frameCount), the cursor becomes its floored modulo
\* frameCount, and the frame is fetched with a cursor in [0, frameCount).
C20_WrapIntoRange ==
  [][\A v \in Voices :
       (/\ audio.voice = v /\ audio.pc = "check"
        /\ Sample(v).isPlaying /\ Sample(v).loop
        /\ ~OneShotPending(Sample(v))
        /\ Outside(Sample(v), audio.localPreciseCurrentFrame))
       => /\ audio'.pc = "fetch"
          /\ audio'.localPreciseCurrentFrame
               = audio.localPreciseCurrentFrame % (Sample(v).totalFrames * Unit)
          /\ ~Outside(Sample(v), audio'.localPreciseCurrentFrame)]_vars

\* The fractional offset t of a cursor, and round(t * SUBDIVISION_STEPS).
Fraction(cursor) == cursor - Floor(cursor) * Unit
NearestRow(cursor) ==
  (2 * Fraction(cursor) * SUBDIVISION_STEPS + Unit) \div (2 * Unit)

\* C21: every frame fetched at a cursor with fractional offset t uses kernel
\* row round(t * SUBDIVISION_STEPS), clamped to SUBDIVISION_STEPS - 1.
C21_RowIsNearest ==
  [][\A v \in Voices :
       (audio.voice = v /\ audio.pc = "fetch")
       => \A c \in Added(v) :
            c.row = Min(NearestRow(audio.localPreciseCurrentFrame),
                        SUBDIVISION_STEPS - 1)]_vars

\* min(max(v, 0), 1)
Saturated(v) == Min(Max(v, 0), Unit)

\* C22: the platter fader volume starts at 0.0 and the master music volume
\* at 0.9; each setter stores min(max(v, 0), 1) for its input v; and both
\* volumes are within [0, 1] in every reachable state.
C22_VolumesInUnitRange ==
  /\ engine.platterFaderVolume = 0 /\ engine.generalMusicVolume = 90000
  /\ [][\A x \in VolumeInputs :
          /\ SetPlatterFaderVolume(x) => engine'.platterFaderVolume = Saturated(x)
          /\ SetMusicMasterVolume(x) => engine'.generalMusicVolume = Saturated(x)]_vars
  /\ [](/\ engine.platterFaderVolume >= 0 /\ engine.platterFaderVolume <= Unit
        /\ engine.generalMusicVolume >= 0 /\ engine.generalMusicVolume <= Unit)

\* The fader was offered 1.5 and holds 1.0; the master music volume was
\* offered -0.3 and holds 0.0.
C22_Witness ==
  /\ engine.platterFaderVolume = Unit
  /\ engine.generalMusicVolume = 0

\* C23: setUnityRateReference(d) with d <= 0 leaves the stored reference as it
\* was, d > 0 replaces it with d, and the stored reference is strictly
\* positive in every reachable state, 2.5 at the start.
C23_UnityReferencePositive ==
  /\ engine.degreesPerFrameForUnityRate = 250000
  /\ [][\A d \in RateDegrees :
          SetDegreesPerFrameForUnityRate(d)
          => engine'.degreesPerFrameForUnityRate
               = IF d <= 0 THEN engine.degreesPerFrameForUnityRate ELSE d]_vars
  /\ [](engine.degreesPerFrameForUnityRate > 0)

\* The reference was replaced by 0.5 and a platter is loaded; from here the
\* setter is offered 0 and -1.0 as well.
C23_Witness ==
  /\ engine.degreesPerFrameForUnityRate = 50000
  /\ platterAudioSample.totalFrames > 0
  /\ engine.scratchSensitivity = 2 * Unit

\* The index after idx in a list of n entries.
After(idx, n) == (idx + 1) % n

\* The platter index after three nextSample calls in a row, and the music
\* index after two track advances in a row, of either kind each.
PlatterLap ==
  LET r1 == nextPlatterSampleInternal(platterAudioSample, engine, assets)
      r2 == nextPlatterSampleInternal(r1.smp, r1.eng, assets)
      r3 == nextPlatterSampleInternal(r2.smp, r2.eng, assets)
  IN r3.eng.currentPlatterSampleIndex
MusicLaps ==
  LET a1 == nextMusicTrackAndPlayInternal(musicAudioSample, engine, assets)
      k1 == nextMusicTrackAndKeepStateInternal(musicAudioSample, engine, assets)
  IN { nextMusicTrackAndPlayInternal(a1.smp, a1.eng, assets).eng.currentMusicTrackIndex,
       nextMusicTrackAndKeepStateInternal(a1.smp, a1.eng, assets).eng.currentMusicTrackIndex,
       nextMusicTrackAndPlayInternal(k1.smp, k1.eng, assets).eng.currentMusicTrackIndex,
       nextMusicTrackAndKeepStateInternal(k1.smp, k1.eng, assets).eng.currentMusicTrackIndex }

\* C24: nextSample, nextTrackAndPlay and nextTrackKeepState each store
\* (index + 1) mod list length, whether the load that follows succeeds or
\* not; both indices are within [0, list length) in every reachable state;
\* and list-length advances in a row bring the index back to where it was.
C24_IndexAdvancesModulo ==
  /\ [][/\ NextSample
           => engine'.currentPlatterSampleIndex
                = After(engine.currentPlatterSampleIndex, Len(platterSamplePaths))
        /\ (NextTrackAndPlay \/ NextTrackKeepState)
           => engine'.currentMusicTrackIndex
                = After(engine.currentMusicTrackIndex, Len(musicTrackPaths))]_vars
  /\ [](/\ engine.currentPlatterSampleIndex \in 0..(Len(platterSamplePaths) - 1)
        /\ engine.currentMusicTrackIndex \in 0..(Len(musicTrackPaths) - 1)
        /\ PlatterLap = engine.currentPlatterSampleIndex
        /\ MusicLaps = {engine.currentMusicTrackIndex})

\* Both indices were advanced onto entries whose load failed.
C24_Witness ==
  /\ engine.currentPlatterSampleIndex = 2
  /\ platterAudioSample.totalFrames = 0
  /\ engine.currentMusicTrackIndex = 1
  /\ musicAudioSample.totalFrames = 0

\* C25: after a nextSample whose load succeeded the platter has loop = true,
\* playOnceThenLoopSilently = false, isPlaying = true, cursor = 0 and
\* useEngineRateForPlayback = false, the shared platter rate is 1.0, and the
\* platter fader volume is what it was before the call.
C25_NextSamplePostState ==
  [][(NextSample /\ platterAudioSample'.totalFrames > 0)
     => /\ platterAudioSample'.loop
        /\ ~platterAudioSample'.playOnceThenLoopSilently
        /\ platterAudioSample'.isPlaying
        /\ platterAudioSample'.preciseCurrentFrame = 0
        /\ ~platterAudioSample'.useEngineRateForPlayback
        /\ engine'.platterTargetPlaybackRate = Unit
        /\ engine'.platterFaderVolume = engine.platterFaderVolume]_vars

\* sample1 is loaded and playing from 0 at rate 1.0 with the finger still
\* down (the scratch before it had the platter under the engine's rate) and
\* the fader at 0.5.
C25_Witness ==
  /\ platterAudioSample.filePath = <<"sounds/sample1", Wav>>
  /\ platterAudioSample.loop /\ platterAudioSample.isPlaying
  /\ platterAudioSample.preciseCurrentFrame = 0
  /\ ~platterAudioSample.useEngineRateForPlayback
  /\ engine.platterTargetPlaybackRate = Unit
  /\ engine.isFingerDownOnPlatter
  /\ engine.platterFaderVolume = 50000

\* C26: releaseTouch stores isFingerDownOnPlatter = false and
\* useEngineRateForPlayback = true and nothing else: the platter rate, the
\* platter's isPlaying, cursor, loop and play-once flags, its buffer, both
\* volumes, the rest of the engine and the music are what they were.
C26_ReleaseTouchFrame ==
  [][ReleaseTouch
     => /\ ~engine'.isFingerDownOnPlatter
        /\ platterAudioSample'.useEngineRateForPlayback
        /\ engine'.platterTargetPlaybackRate = engine.platterTargetPlaybackRate
        /\ platterAudioSample'.isPlaying = platterAudioSample.isPlaying
        /\ platterAudioSample'.preciseCurrentFrame = platterAudioSample.preciseCurrentFrame
        /\ platterAudioSample'.loop = platterAudioSample.loop
        /\ platterAudioSample'.playOnceThenLoopSilently
             = platterAudioSample.playOnceThenLoopSilently
        /\ platterAudioSample'.playedOnce = platterAudioSample.playedOnce
        /\ Buffer(platterAudioSample') = Buffer(platterAudioSample)
        /\ engine'.platterFaderVolume = engine.platterFaderVolume
        /\ engine'.generalMusicVolume = engine.generalMusicVolume
        /\ [engine' EXCEPT !.isFingerDownOnPlatter = TRUE]
             = [engine EXCEPT !.isFingerDownOnPlatter = TRUE]
        /\ musicAudioSample' = musicAudioSample]_vars

\* The finger is up over a platter that a stationary touch stopped part way
\* through the sample: the rate is still the 0 of that touch and the platter
\* is still stopped.
C26_Witness ==
  /\ ~engine.isFingerDownOnPlatter
  /\ platterAudioSample.useEngineRateForPlayback
  /\ platterAudioSample.totalFrames > 0
  /\ ~platterAudioSample.isPlaying
  /\ engine.platterTargetPlaybackRate = 0
  /\ platterAudioSample.preciseCurrentFrame > 0

\* How far a callback is: the platter's frames, then the music's, then the
\* return; within a voice, frame by frame, the checks of a frame before its
\* fetch and the cursor store after the last frame.
WithinVoice ==
  CASE audio.pc = "check" -> 2 * audio.i
    [] audio.pc = "fetch" -> 2 * audio.i + 1
    [] OTHER -> 2 * audio.numFrames
Progress ==
  CASE audio.pc = "idle" -> 0
    [] audio.pc = "music" -> 2 * audio.numFrames + 2
    [] audio.pc = "ret" -> 4 * audio.numFrames + 4
    [] audio.voice = "platter" -> 1 + WithinVoice
    [] OTHER -> 2 * audio.numFrames + 3 + WithinVoice

\* C27: every invocation of the callback returns, and returns Continue:
\* inside a callback the audio thread always has a next step, every step
\* takes it further towards the return, no step ends it any other way, and
\* the status handed back is Continue whatever the engine's state.
C27_CallbackContinues ==
  /\ [](/\ audio.result \in {"none", "Continue"}
        /\ audio.pc # "crashed"
        /\ audio.pc # "idle"
           => ENABLED (Check \/ Fetch \/ Store \/ MusicEnter \/ CallbackReturn))
  /\ [][audio' # audio
        => IF audio'.pc = "idle"
           THEN audio.pc = "ret" /\ audio'.result = "Continue"
           ELSE Progress' > Progress]_vars

\* The platter is a looping voice rendered at unity rate with gain 1 from a
\* cursor on a whole frame.
UnityLoop ==
  /\ audio.voice = "platter" /\ audio.pc \in {"check", "fetch", "store"}
  /\ platterAudioSample.loop /\ ~OneShotPending(platterAudioSample)
  /\ audio.playbackRateToUse = Unit
  /\ audio.effectiveVolume = Unit
  /\ Fraction(platterAudioSample.preciseCurrentFrame) = 0

\* What a slot holds when it holds buffer[frame] of the platter, channel ch,
\* and nothing else: one contribution, of kernel row 0, whose peak tap (tap
\* NUM_TAPS / 2 - 1, counted from 0) reads that entry, with gain 1.
HoldsFrame(slot, frame, ch) ==
  \E c \in outputBuffer[slot] :
    /\ outputBuffer[slot] = {c}
    /\ c.row = 0 /\ c.volume = Unit
    /\ c.taps[NUM_TAPS \div 2].deref
    /\ c.taps[NUM_TAPS \div 2].index
         = frame * platterAudioSample.channels + (ch % platterAudioSample.channels)

CancellingRow ==
  [k \in 1..NUM_TAPS |-> IF k = 1 THEN Unit ELSE IF k = 2 THEN -Unit ELSE 0]

\* C29: the kernel row a frame selects has NUM_TAPS coefficients that sum to
\* 1.0 within 1e-4, whichever of the SUBDIVISION_STEPS rows it is; the build
\* leaves a row undivided when its raw sum has magnitude at most 1e-6.
C29_RowsSumToOne ==
  /\ audio.pc = "fetch"
       => LET j == sincTableIndex(audio.localPreciseCurrentFrame)
              sum == sumCoeffs(sincTable(j), NUM_TAPS)
          IN IF fabs(sumCoeffs(rawRow(j), NUM_TAPS)) * 10 > 1
             THEN fabs(sum - Unit) <= Unit \div 10000
             ELSE sincTable(j) = rawRow(j)
  /\ normalize(CancellingRow) = CancellingRow

\* A frame is about to be fetched through the row of offset 0.25, whose raw
\* coefficients sum to less than 0.9999 and whose table row sums to 1.0
\* within 1e-4.
C29_Witness ==
  /\ audio.pc = "fetch"
  /\ sincTableIndex(audio.localPreciseCurrentFrame) = SUBDIVISION_STEPS \div 4
  /\ sumCoeffs(rawRow(SUBDIVISION_STEPS \div 4), NUM_TAPS) < Unit - Unit \div 10000
  /\ fabs(sumCoeffs(sincTable(SUBDIVISION_STEPS \div 4), NUM_TAPS) - Unit)
       <= Unit \div 10000

\* The call about to store its cursor has rendered every frame it was asked
\* for, and the cursor p + j * r of each was inside the buffer: it met no
\* boundary event.
NoBoundaryEvent ==
  /\ audio.pc = "store"
  /\ audio.i = audio.numFrames
  /\ \A j \in 0..(audio.i - 1) :
       LET at == Sample(audio.voice).preciseCurrentFrame + j * audio.playbackRateToUse
       IN 0 <= at /\ at < Sample(audio.voice).totalFrames * Unit

\* C30: a render call of k frames of a playing voice at rate r that starts
\* from an in-range cursor p and meets no boundary event leaves the stored
\* cursor at p + k * r, whatever the sign and the fraction of r.
C30_CursorAdvances ==
  [][NoBoundaryEvent
     => LET p == Sample(audio.voice).preciseCurrentFrame
            stored == IF audio.voice = "platter"
                      THEN platterAudioSample'.preciseCurrentFrame
                      ELSE musicAudioSample'.preciseCurrentFrame
        IN stored = p + audio.i * audio.playbackRateToUse]_vars

\* The audio thread is inside getAudio of the music voice.
RenderingMusic == audio.voice = "music" /\ audio.pc \in {"check", "fetch", "store"}

\* A facade call has started the music voice.
MusicStartCall == ~musicAudioSample.isPlaying /\ musicAudioSample'.isPlaying

C32_AudioNeverStopsPlatter ==
  [][(platterAudioSample.isPlaying /\ ~platterAudioSample'.isPlaying)
     => audio' = audio]_vars

\* playTrack took the restart path of lines 663-668: the current entry was
\* already playing.
RestartCall ==
  /\ musicAudioSample.isPlaying
  /\ firstFetch["music"] # "restart" /\ firstFetch'["music"] = "restart"

\* C33: a playTrack on the entry that is already playing leaves the buffer,
\* the flags and isPlaying of the music voice as they are and stores cursor 0,
\* and whatever the audio thread is doing at that moment, the next frame it
\* renders for the music voice is fetched at cursor 0.
C33_RestartNotLost ==
  /\ [][RestartCall
        => musicAudioSample' = [musicAudioSample EXCEPT !.preciseCurrentFrame = 0]]_vars
  /\ [](firstFetch["music"] # "lost")

\* C34: every platter frame fetched once the one-shot intro has completed
\* (playedOnce is set) carries the platter fader volume, the frames of the
\* callback in which the intro reached the end of its buffer included.
C34_LoopPhaseUsesFader ==
  [][(/\ audio.pc = "fetch" /\ audio.voice = "platter"
      /\ platterAudioSample.playOnceThenLoopSilently
      /\ platterAudioSample.playedOnce)
     => \A c \in Added("platter") : c.volume = engine.platterFaderVolume]_vars

\* A scratchUpdate on a platter with no audio loaded.
ScratchOnUnloaded ==
  /\ platterAudioSample.totalFrames = 0
  /\ \E a \in BOOLEAN : \E x \in ActiveDeltas \union CoastRates : ScratchUpdate(a, x)

\* C35: the platter's external-rate flag, once set, is cleared only by a
\* load (playIntroThenLoop, nextSample) or by a scratchUpdate on an unloaded
\* platter; and a callback that starts while the flag is set renders the
\* platter with the fader volume, so after the first touch of an intro no
\* later callback uses the master music volume until the platter is reloaded.
C35_ExternalRateSticks ==
  /\ [][(platterAudioSample.useEngineRateForPlayback
         /\ ~platterAudioSample'.useEngineRateForPlayback)
        => PlatterLoadCall \/ ScratchOnUnloaded]_vars
  /\ [][(audio.pc = "idle" /\ audio'.pc = "check"
         /\ platterAudioSample.useEngineRateForPlayback)
        => audio'.effectiveVolume = engine.platterFaderVolume]_vars
  /\ [][(audio.pc = "fetch" /\ audio.voice = "platter")
        => \A c \in Added("platter") : c.volume = audio.effectiveVolume]_vars

\* A frame of an intro that was touched and released is about to be fetched:
\* the one-shot is still pending and the finger is up, and the callback's
\* gain is the fader volume, which is not the master music volume.
C35_Witness ==
  /\ audio.pc = "fetch" /\ audio.voice = "platter"
  /\ OneShotPending(platterAudioSample)
  /\ ~engine.isFingerDownOnPlatter
  /\ platterAudioSample.useEngineRateForPlayback
  /\ audio.effectiveVolume = engine.platterFaderVolume
  /\ engine.platterFaderVolume # engine.generalMusicVolume

\* C36: a scratchUpdate(isActive, v) on a platter with no audio loaded stores
\* the touch flag, clears the external-rate flag and changes nothing else:
\* the target rate and isPlaying stay as they were.
C36_ScratchOnUnloadedPlatter ==
  [][\A a \in BOOLEAN : \A x \in ActiveDeltas \union CoastRates :
       (platterAudioSample.totalFrames = 0 /\ ScratchUpdate(a, x))
       => /\ engine' = [engine EXCEPT !.isFingerDownOnPlatter = a]
          /\ platterAudioSample'
               = [platterAudioSample EXCEPT !.useEngineRateForPlayback = FALSE]
          /\ ~platterAudioSample'.isPlaying]_vars

\* The finger is down on a platter that was never loaded: it is not playing,
\* not under external-rate control, and the target rate is the initial 1.0.
C36_Witness ==
  /\ platterAudioSample.filePath = <<>>
  /\ platterAudioSample.totalFrames = 0
  /\ engine.isFingerDownOnPlatter
  /\ ~platterAudioSample.useEngineRateForPlayback
  /\ ~platterAudioSample.isPlaying
  /\ engine.platterTargetPlaybackRate = NewAudioEngine.platterTargetPlaybackRate

\* C37: nextTrackKeepState keeps the play state of the music voice: after a
\* load that succeeds, isPlaying is what it was before the call, the cursor
\* is 0 and loop is false on the new buffer; after a load that fails,
\* isPlaying is false.
C37_KeepStatePreservesPlaying ==
  [][NextTrackKeepState
     => IF musicAudioSample'.totalFrames > 0
        THEN /\ musicAudioSample'.isPlaying = musicAudioSample.isPlaying
             /\ musicAudioSample'.preciseCurrentFrame = 0
             /\ ~musicAudioSample'.loop
             /\ musicAudioSample'.audioData
                  = PcmData(assets[musicAudioSample'.filePath])
        ELSE ~musicAudioSample'.isPlaying]_vars

\* The second track is playing from cursor 0 with loop = false and has not
\* been rendered yet: it was loaded while the first track was playing.
C37_Witness ==
  /\ engine.currentMusicTrackIndex = 1
  /\ musicAudioSample.isPlaying
  /\ musicAudioSample.filePath = <<"tracks/trackB", Wav>>
  /\ musicAudioSample.preciseCurrentFrame = 0
  /\ ~musicAudioSample.loop
  /\ firstFetch["music"] = "pending"

\* C38: startStream and stopStream issue no request to the platform stream
\* when it does not exist (they return ErrorNull) or is Closed or Disconnected
\* (ErrorClosed); startStream on a Started or Starting stream and stopStream
\* on a Stopped or Stopping stream return OK without a request; in the other
\* states exactly one requestStart / requestStop is issued and its result is
\* what the call returns.
Returned(result) ==
  /\ engine'.streamResult = result
  /\ engine'.streamRequests = engine.streamRequests

Requested(call) ==
  /\ Len(engine'.streamRequests) = Len(engine.streamRequests) + 1
  /\ SubSeq(engine'.streamRequests, 1, Len(engine.streamRequests))
       = engine.streamRequests
  /\ LET last == engine'.streamRequests[Len(engine'.streamRequests)]
     IN /\ last.call = call
        /\ last.from = engine.audioStream
        /\ engine'.streamResult = last.result

StreamCallOutcome(call, done) ==
  CASE engine.audioStream = "null" -> Returned("ErrorNull")
    [] engine.audioStream \in {"Closed", "Disconnected"} -> Returned("ErrorClosed")
    [] engine.audioStream \in done -> Returned("OK")
    [] OTHER -> Requested(call)

C38_StreamRequestsGuarded ==
  /\ [][StartStream
          => StreamCallOutcome("requestStart", {"Started", "Starting"})]_vars
  /\ [][StopStream
          => StreamCallOutcome("requestStop", {"Stopped", "Stopping"})]_vars
  /\ [](\A k \in 1..Len(engine.streamRequests) :
          LET r == engine.streamRequests[k]
          IN r.from \in (IF r.call = "requestStart"
                         THEN {"Open", "Stopping", "Stopped"}
                         ELSE {"Open", "Starting", "Started"}))

\* A stream that was started and stopped once has been closed after a
\* disconnect, and the last call on it was refused with ErrorClosed.
C38_Witness ==
  /\ engine.audioStream = "Closed"
  /\ engine.streamResult = "ErrorClosed"
  /\ Len(engine.streamRequests) = 2
  /\ engine.streamRequests[1].call = "requestStart"
  /\ engine.streamRequests[2].call = "requestStop"

====
